---- MODULE Spec2Model ----
(***************************************************************************)
(* A model of bytestring_splitter: BytestringSplitter engines, the cursor  *)
(* driven parse (__call__ / actually_split / deal_with_remainder), the     *)
(* composition operators (__add__, __mul__), repeat, and the length        *)
(* prefixed VariableLengthBytestring encoding.                             *)
(*                                                                         *)
(* Python values are modelled as follows.                                  *)
(*   bytes              a sequence of integers 0..255                      *)
(*   a length           [kind |-> "int", n |-> k], or the class object     *)
(*                      VariableLengthBytestring used as a marker          *)
(*   a declaration      [form, cls, len]: a bare int, a bare class, or a   *)
(*                      tuple (class, length)                              *)
(*   a result entry     [t, v, cls]: t names the kind of Python object     *)
(*   an outcome         [status, exc, ...]: a return or a raised exception *)
(***************************************************************************)
EXTENDS Integers, Sequences, FiniteSets, TLC

VARIABLES engines, pc, call, ret, rep

vars == <<engines, pc, call, ret, rep>>

(***************************************************************************)
(* Bounds of the model.                                                    *)
(***************************************************************************)
\* most declarations of an engine under the general parse specification
MaxFields == 2
\* largest fixed field length drawn
MaxFieldLen == 2
\* longest buffer drawn for a parse
MaxBufLen == 5
\* most declarations of an engine called on a packed message
MaxPackedFields == 3
\* longest payload drawn for a variable-length field
MaxPayload == 2
\* most declarations, and largest field length, of the operands of + and *
MaxOperandFields == 2
MaxOperandLen == 1
\* largest factor an engine is multiplied by
MaxTimes == 3

\* byte values buffers are drawn from (below 128, so that the value of a
\* 4-byte length prefix stays below 2^31)
ByteVals == {0, 1}

VARIABLE_HEADER_LENGTH == 4

(***************************************************************************)
(* bytes                                                                   *)
(***************************************************************************)
Min(a, b) == IF a < b THEN a ELSE b

\* s[a:b] for 0 <= a, 0 <= b: Python clamps both ends to len(s)
PySlice(s, a, b) ==
    IF a >= Min(b, Len(s)) THEN << >> ELSE SubSeq(s, a + 1, Min(b, Len(s)))

\* s[a:]
PyTail(s, a) == PySlice(s, a, Len(s))

RECURSIVE from_bytes_big(_)
\* int.from_bytes(bs, "big"); the empty byte string gives 0
from_bytes_big(bs) ==
    IF bs = << >> THEN 0
    ELSE 256 * from_bytes_big(SubSeq(bs, 1, Len(bs) - 1)) + bs[Len(bs)]

RECURSIVE to_bytes_big(_, _)
\* n.to_bytes(width, "big"), for n < 256 ^ width
to_bytes_big(n, width) ==
    IF width = 0 THEN << >>
    ELSE Append(to_bytes_big(n \div 256, width - 1), n % 256)

\* all byte strings over ByteVals of length n, and of length at most n
BytesOfLen(n) == [1..n -> ByteVals]
BytesUpTo(n) == UNION {BytesOfLen(k) : k \in 0..n}

RECURSIVE Concat(_)
\* bytes().join(parts)
Concat(parts) ==
    IF parts = << >> THEN << >> ELSE Head(parts) \o Concat(Tail(parts))

(***************************************************************************)
(* lengths, declarations, result entries, outcomes                         *)
(***************************************************************************)
IntLen(k) == [kind |-> "int", n |-> k]

\* an int of 2^31 or more, held in two halves: hi * 2^16 + lo
WideLen(hi, lo) == [kind |-> "int", n |-> lo, hi |-> hi]

\* whether an int is held in two halves
IsWide(length) == "hi" \in DOMAIN length

\* the two halves of an int, low 16 bits and the rest
Low16(length) == IF IsWide(length) THEN length.n ELSE length.n % 65536
High16(length) == IF IsWide(length) THEN length.hi ELSE length.n \div 65536

\* a + b of two ints
SumLengths(a, b) ==
    LET lo == Low16(a) + Low16(b)
        hi == High16(a) + High16(b) + (lo \div 65536)
    IN  IF hi < 32768 THEN IntLen(hi * 65536 + (lo % 65536))
        ELSE WideLen(hi, lo % 65536)

\* the class object, used as the marker of a length-prefixed field
VariableLengthBytestring == [kind |-> "VariableLengthBytestring", n |-> 0]

\* BytestringSplitter(5, ...): a bare int
IntDecl(k) == [form |-> "int", cls |-> "int", len |-> IntLen(k)]
\* BytestringSplitter(SomeClass, ...): a bare class
ClassDecl(c) == [form |-> "class", cls |-> c, len |-> IntLen(0)]
\* BytestringSplitter((SomeClass, length), ...): a tuple
TupleDecl(c, l) == [form |-> "tuple", cls |-> c, len |-> l]
\* BytestringSplitter((SomeClass, length, kwargs), ...): a tuple with the
\* keyword arguments of the class, kept as the set of their keys
TupleDeclWith(c, l, kwargs) ==
    [form |-> "tuple", cls |-> c, len |-> l, kwargs |-> kwargs]

\* BytestringSplitter(some_splitter, ...): a bare splitter instance; the
\* instance is kept with the declaration, and stands as the class of the
\* field under one name
SplitterInstance == "BytestringSplitter instance"
SplitterDecl(splitter) ==
    [form |-> "splitter", cls |-> SplitterInstance, len |-> IntLen(0),
     splitter |-> splitter]

\* BytestringKwargifier(receiver, name=message_type, ...): one of
\* parameter_pairs.items(), the tuple (name, message_type)
Item(name, message_type) == [name |-> name, message_type |-> message_type]

\* whether a message parameter is such a tuple
IsItem(message_parameter) == "message_type" \in DOMAIN message_parameter

BytesVal(b) == [t |-> "bytes", v |-> b, cls |-> ""]
DeferredVal(b, c) == [t |-> "deferred", v |-> b, cls |-> c]
\* the tuple (bytes_for_this_object, message_class, kwargs) of partial mode
DeferredWith(b, c, kwargs) ==
    [t |-> "deferred", v |-> b, cls |-> c, kwargs |-> kwargs]
IntVal(k) == [t |-> "int", v |-> <<k>>, cls |-> ""]

Raise(e) == [status |-> "raise", exc |-> e]

Return(v) == [status |-> "ok", exc |-> "", value |-> v]

(***************************************************************************)
(* VariableLengthBytestring                                                *)
(***************************************************************************)
\* VariableLengthBytestring(message).message_length_as_bytes
message_length_as_bytes(message) ==
    to_bytes_big(Len(message), VARIABLE_HEADER_LENGTH)

\* bytes(VariableLengthBytestring(message)); also what other + v and
\* v + other put next to other
__bytes__(message) == message_length_as_bytes(message) \o message

(***************************************************************************)
(* BytestringSplitter: construction                                        *)
(***************************************************************************)
\* Message = namedtuple("Message", ("name", "message_class", "length", "kwargs"));
\* the name None is the empty string, kwargs is the set of its keys
Message(name, class, length, kwargs) ==
    [message_name |-> name, message_class |-> class,
     message_length |-> length, kwargs |-> kwargs]

\* the classes of the model that define expected_bytes_length()
HasExpectedBytesLength(c) == c = "VariableLengthBytestring"

\* c.expected_bytes_length()
expected_bytes_length(c) == VariableLengthBytestring

\* the inner handler of _parse_message_meta: int(message_class), and failing
\* that message_class.expected_bytes_length(); an AttributeError raised here,
\* inside the handler of TypeError, leaves the try statement
LengthFromClass(message_type) ==
    IF message_type.form = "int"
    THEN Return(Message("", "bytes", message_type.len, {}))
    ELSE IF message_type.form = "splitter"
    THEN Return(Message("", message_type.cls,
                        IntLen(message_type.splitter._length), {}))
    ELSE IF HasExpectedBytesLength(message_type.cls)
         THEN Return(Message("", message_type.cls,
                             expected_bytes_length(message_type.cls), {}))
         ELSE Raise("AttributeError")

\* kwargs = message_type[seeker] behind a length: the third item of the
\* tuple, {} on the IndexError of a tuple of two
KwargsOf(message_type) ==
    IF "kwargs" \in DOMAIN message_type THEN message_type.kwargs ELSE {}

\* BytestringSplitter._parse_message_meta
_parse_message_meta(message_type) ==
    IF message_type.form = "tuple"
    THEN IF \/ message_type.len = VariableLengthBytestring
            \/ message_type.len.n # 0
            \/ IsWide(message_type.len)
         THEN Return(Message("", message_type.cls, message_type.len,
                             KwargsOf(message_type)))
         ELSE LengthFromClass(message_type)
    ELSE LengthFromClass(message_type)

\* BytestringKwargifier._parse_message_meta(message_item): the name of the
\* item with what BytestringSplitter._parse_message_meta makes of its type
Kwargifier_parse_message_meta(message_item) ==
    LET m == _parse_message_meta(message_item.message_type)
    IN  IF m.status = "raise" THEN m
        ELSE Return([m.value EXCEPT !.message_name = message_item.name])

RECURSIVE PopulateFrom(_, _, _, _)
\* the loop of _populate_message_types over message_parameters[i..]
PopulateFrom(message_parameters, i, message_types, acc) ==
    IF i > Len(message_parameters)
    THEN Return([message_types |-> message_types,
                 is_variable_length |-> acc.is_variable_length,
                 _length |-> IF IsWide(acc.total_length)
                             THEN acc.total_length
                             ELSE acc.total_length.n])
    ELSE LET m == IF IsItem(message_parameters[i])
                  THEN Kwargifier_parse_message_meta(message_parameters[i])
                  ELSE _parse_message_meta(message_parameters[i])
         IN  IF m.status = "raise" THEN m
             ELSE PopulateFrom(
                      message_parameters, i + 1,
                      Append(message_types,
                             IF m.value.message_class = SplitterInstance
                             THEN [m.value EXCEPT !.kwargs = @ \cup {"single"}]
                             ELSE m.value),
                      IF m.value.message_length = VariableLengthBytestring
                      THEN [acc EXCEPT !.is_variable_length = TRUE]
                      ELSE [acc EXCEPT !.total_length =
                                           SumLengths(@, m.value.message_length)])

\* BytestringSplitter._populate_message_types
_populate_message_types(message_parameters) ==
    PopulateFrom(message_parameters, 1, << >>,
                 [is_variable_length |-> FALSE, total_length |-> IntLen(0)])

\* the sanity check of __init__: a bare class followed by a bare int
LengthPassedAsArgument(message_parameters) ==
    /\ Len(message_parameters) >= 2
    /\ ~IsItem(message_parameters[1])
    /\ ~IsItem(message_parameters[2])
    /\ message_parameters[1].form \notin {"int", "tuple"}
    /\ message_parameters[2].form = "int"

\* BytestringSplitter.__init__: the engine object, or the exception raised
__init__(cls, message_parameters) ==
    IF message_parameters = << >> THEN Raise("ValueError")
    ELSE LET p == _populate_message_types(message_parameters)
         IN  IF p.status = "raise" THEN p
             ELSE IF LengthPassedAsArgument(message_parameters)
                  THEN Raise("TypeError")
                  ELSE Return([cls |-> cls,
                               message_parameters |-> message_parameters,
                               message_types |-> p.value.message_types,
                               is_variable_length |-> p.value.is_variable_length,
                               _length |-> p.value._length])

\* BytestringSplitter.__len__
__len__(self) == self._length

\* __add__ with the operands' declarations in the wrong order
__add__swapped(self, splitter) ==
    __init__(self.cls, splitter.message_parameters \o self.message_parameters)

\* BytestringSplitter.__add__: a new engine of self's class, built from
\* self's declarations followed by splitter's
__add__(self, splitter) ==
    __init__(self.cls, self.message_parameters \o splitter.message_parameters)

RECURSIVE AddFrom(_, _, _, _)
\* "for i in range(1, times_to_add): new_splitter += self"
AddFrom(self, new_splitter, i, times_to_add) ==
    IF i >= times_to_add THEN Return(new_splitter)
    ELSE LET sum == __add__(new_splitter, self)
         IN  IF sum.status = "raise" THEN sum
             ELSE AddFrom(self, sum.value, i + 1, times_to_add)

\* __mul__ with its loop over range(0, times_to_add)
__mul__from_zero(self, times_to_add) ==
    IF times_to_add.type # "int" THEN Raise("TypeError")
    ELSE AddFrom(self, self, 0, times_to_add.n)

\* BytestringSplitter.__mul__; times_to_add is [type, n]
__mul__(self, times_to_add) ==
    IF times_to_add.type # "int" THEN Raise("TypeError")
    ELSE AddFrom(self, self, 1, times_to_add.n)

(***************************************************************************)
(* BytestringSplitter: the parse                                           *)
(***************************************************************************)
\* produce_value: neither class of the model has a from_bytes, so the class
\* itself is called. bytes(b) is b; a VariableLengthBytestring built from b is
\* unwrapped to its message_as_bytes, b again (its constructor raises only
\* for 2^32 bytes or more, which no slice of a buffer drawn here has)
produce_value(message_class, message_name, bytes_for_this_object, kwargs) ==
    Return(BytesVal(bytes_for_this_object))

\* the length checks without the first one: only too few bytes are refused
only_too_few_bytes(self, splittable, return_remainder, msgpack_remainder) ==
    /\ ~self.is_variable_length
    /\ __len__(self) > Len(splittable)

\* the two length checks that open actually_split, made only when the
\* engine has no variable-length field
wrong_number_of_bytes(self, splittable, return_remainder, msgpack_remainder) ==
    /\ ~self.is_variable_length
    /\ \/ /\ ~(return_remainder \/ msgpack_remainder)
          /\ __len__(self) # Len(splittable)
       \/ __len__(self) > Len(splittable)

\* the concrete length of a field: the declared one, or the big-endian value
\* of the (at most) 4 bytes at the cursor
concrete_length(message_length, splittable, cursor) ==
    IF message_length = VariableLengthBytestring
    THEN from_bytes_big(PySlice(splittable, cursor,
                                cursor + VARIABLE_HEADER_LENGTH))
    ELSE message_length.n

\* the cursor left on the length prefix
cursor_on_header(message_length, cursor) == cursor

\* the cursor, advanced past the length prefix of a variable-length field
cursor_past_header(message_length, cursor) ==
    IF message_length = VariableLengthBytestring
    THEN cursor + VARIABLE_HEADER_LENGTH
    ELSE cursor

\* "if message_length > len(splittable)"
claims_too_many_bytes(message_length, splittable, cursor) ==
    message_length > Len(splittable)

\* the slice taken up to message_length instead of cursor + message_length
bytes_up_to_length(splittable, cursor, message_length) ==
    PySlice(splittable, cursor, message_length)

\* splittable[cursor:expected_end_of_object_bytes]
bytes_for_this_object(splittable, cursor, message_length) ==
    PySlice(splittable, cursor, cursor + message_length)

\* single mode without its look at the bytes left over
no_bytes_too_many(splittable, cursor) == 0

\* "_remainder = len(splittable[cursor:])" of the single branch
bytes_too_many(splittable, cursor) == Len(PyTail(splittable, cursor))

\* what actually_split returns: processed_objects (a list, or the bare value
\* of single mode) and the remainder (False in single mode)
Split(shape, items, remainder, cursor) ==
    [status |-> "ok", exc |-> "", shape |-> shape, items |-> items,
     remainder |-> remainder, cursor |-> cursor]

\* self.processed_objects_container: dict for a kwargifier, else list
processed_objects_container(self) ==
    IF self.cls = "BytestringKwargifier" THEN "dict" ELSE "list"

\* d[name] = value of a dict, held as the sequence of its items in the
\* order of insertion
SetItem(d, name, value) ==
    IF \E k \in 1..Len(d) : d[k].name = name
    THEN [k \in 1..Len(d) |->
             IF d[k].name = name THEN [name |-> name, value |-> value]
             ELSE d[k]]
    ELSE Append(d, [name |-> name, value |-> value])

\* "processed_objects[message_name] = bytes_for_this_object, message_class,
\* kwargs", and on the TypeError of a list
\* "processed_objects.append((bytes_for_this_object, message_class))"
store_deferred(self, processed_objects, mt, slice) ==
    IF processed_objects_container(self) = "dict"
    THEN SetItem(processed_objects, mt.message_name,
                 DeferredWith(slice, mt.message_class, mt.kwargs))
    ELSE Append(processed_objects, DeferredVal(slice, mt.message_class))

\* "processed_objects[message_name] = value", and on the TypeError of a
\* list "processed_objects.append(value)"
store_value(self, processed_objects, message_name, value) ==
    IF processed_objects_container(self) = "dict"
    THEN SetItem(processed_objects, message_name, value)
    ELSE Append(processed_objects, value)

\* what produce_value makes of what the nested splitter returned: any
\* exception becomes a BytestringSplittingError, a list is a value
value_of_message(message) ==
    IF message.status = "raise"
    THEN Raise("BytestringSplittingError")
    ELSE IF message.shape = "bare" THEN Return(message.items[1])
    ELSE Return([t |-> "list", v |-> message.items, cls |-> ""])

RECURSIVE __call__(_, _, _, _, _, _)
RECURSIVE mixin__call__(_, _, _, _, _, _, _)
\* produce_value for a field whose class is a splitter instance: it has no
\* from_bytes, so the instance itself is called, with the keyword argument
\* single=True of its kwargs; an Exception it raises becomes a
\* BytestringSplittingError, and what it returns is the value
produce_value_of_splitter(splitter, message_name, bytes_for_message, kwargs) ==
    value_of_message(
        IF splitter.cls = "BytestringSplitter"
        THEN __call__(splitter, bytes_for_message,
                      FALSE, FALSE, FALSE, "single" \in kwargs)
        ELSE mixin__call__(splitter, bytes_for_message,
                           [t |-> "absent", v |-> << >>, cls |-> ""],
                           FALSE, FALSE, FALSE,
                           "single" \in kwargs).result)

RECURSIVE SplitFrom(_, _, _, _, _, _, _)
\* produce_value for the class of the i-th field, which for a splitter
\* instance is a call of that splitter
produce_value_of_field(self, i, mt, slice) ==
    IF mt.message_class = SplitterInstance
    THEN produce_value_of_splitter(self.message_parameters[i].splitter,
                                   mt.message_name, slice, mt.kwargs)
    ELSE produce_value(mt.message_class, mt.message_name, slice, mt.kwargs)

\* an iteration of the loop of actually_split from "# FINISHING" on
finishing(self, splittable, partial, single, i, cursor, processed_objects, produced) ==
    IF produced.status = "raise" THEN produced
    ELSE IF single
    THEN IF bytes_too_many(splittable, cursor) # 0
         THEN Raise("ValueError")
         ELSE Split("bare", <<produced.value>>, << >>, cursor)
    ELSE SplitFrom(self, splittable, partial, single, i + 1, cursor,
                   store_value(self, processed_objects,
                               self.message_types[i].message_name,
                               produced.value))

\* the loop of actually_split over message_types[i..]
SplitFrom(self, splittable, partial, single, i, cursor, processed_objects) ==
    IF i > Len(self.message_types)
    THEN Split(processed_objects_container(self), processed_objects,
               PyTail(splittable, cursor), cursor)
    ELSE LET mt == self.message_types[i]
             message_length ==
                 concrete_length(mt.message_length, splittable, cursor)
             start == cursor_past_header(mt.message_length, cursor)
             expected_end_of_object_bytes == start + message_length
             slice == bytes_for_this_object(splittable, start, message_length)
         IN  IF claims_too_many_bytes(message_length, splittable, start)
             THEN Raise("BytestringSplittingError")
             ELSE IF partial
             THEN SplitFrom(self, splittable, partial, single, i + 1,
                            expected_end_of_object_bytes,
                            store_deferred(self, processed_objects, mt, slice))
             ELSE finishing(self, splittable, partial, single, i,
                            expected_end_of_object_bytes, processed_objects,
                            produce_value_of_field(self, i, mt, slice))

\* BytestringSplitter.nice_message_types, called for the message of the
\* length checks: the __name__ of the class of every field, which a
\* splitter instance does not have
nice_message_types(self) ==
    IF \E i \in 1..Len(self.message_types) :
          self.message_types[i].message_class = SplitterInstance
    THEN Raise("AttributeError")
    ELSE Return(<< >>)

\* BytestringSplitter.actually_split
actually_split(self, splittable, return_remainder, msgpack_remainder, partial, single) ==
    IF wrong_number_of_bytes(self, splittable, return_remainder,
                             msgpack_remainder)
    THEN IF nice_message_types(self).status = "raise"
         THEN nice_message_types(self)
         ELSE Raise("BytestringSplittingError")
    ELSE SplitFrom(self, splittable, partial, single, 1, 0, << >>)

\* msgpack.loads of the external codec, on the bytes the model draws: a byte
\* below 128 is a positive fixint, so exactly one such byte decodes (to that
\* int); no byte is incomplete input and more bytes are extra data, both
\* ValueErrors
msgpack_loads(remainder) ==
    IF Len(remainder) = 1 /\ remainder[1] < 128
    THEN Return(IntVal(remainder[1]))
    ELSE Raise("ValueError")

\* deal_with_remainder appending nothing for return_remainder
remainder_dropped(self, sp, msgpack_remainder, return_remainder) ==
    IF msgpack_remainder
    THEN IF sp.shape = "bare" THEN Raise("AttributeError")
         ELSE LET decoded == msgpack_loads(sp.remainder)
              IN  IF decoded.status = "raise" THEN decoded
                  ELSE [sp EXCEPT !.items = Append(@, decoded.value)]
    ELSE sp

\* BytestringSplitter.deal_with_remainder; sp is what actually_split returned.
\* The bare bytes value of single mode has no append
deal_with_remainder(self, sp, msgpack_remainder, return_remainder) ==
    IF msgpack_remainder
    THEN IF sp.shape = "bare" THEN Raise("AttributeError")
         ELSE LET decoded == msgpack_loads(sp.remainder)
              IN  IF decoded.status = "raise" THEN decoded
                  ELSE [sp EXCEPT !.items = Append(@, decoded.value)]
    ELSE IF return_remainder
    THEN IF sp.shape = "bare" THEN Raise("AttributeError")
         ELSE [sp EXCEPT !.items = Append(@, BytesVal(sp.remainder))]
    ELSE sp

\* BytestringKwargifier.deal_with_remainder: with bytes left over the list
\* [processed_objects, x], x the bytes or what msgpack makes of them, or
\* an error when neither was asked for; with none left the tuple
\* (processed_objects, False) for return_remainder, else processed_objects
Kwargifier_deal_with_remainder(self, sp, msgpack_remainder, return_remainder) ==
    IF sp.remainder # << >>
    THEN IF msgpack_remainder
         THEN LET decoded == msgpack_loads(sp.remainder)
              IN  IF decoded.status = "raise" THEN decoded
                  ELSE [sp EXCEPT !.shape = "list"]
                           @@ [first |-> sp.shape, second |-> decoded.value]
         ELSE IF return_remainder
         THEN [sp EXCEPT !.shape = "list"]
                  @@ [first |-> sp.shape, second |-> BytesVal(sp.remainder)]
         ELSE Raise("BytestringSplittingError")
    ELSE IF return_remainder
    THEN [sp EXCEPT !.shape = "tuple"]
             @@ [first |-> sp.shape,
                 second |-> [t |-> "bool", v |-> << >>, cls |-> ""]]
    ELSE sp

\* the end of __call__: the processed objects, or with partial the
\* partial_receiver holding them
returned_by_call(self, sp, processed_objects, partial) ==
    IF sp.status = "raise" THEN sp
    ELSE IF processed_objects.status = "raise" THEN processed_objects
    ELSE IF partial
    THEN IF self.cls = "BytestringKwargifier"
         THEN [processed_objects EXCEPT !.shape = "PartiallyKwargifiedBytes"]
                  @@ [processed_objects |-> processed_objects.shape]
         ELSE [processed_objects EXCEPT !.shape = "PartiallySplitBytes"]
    ELSE processed_objects

\* __call__ from self.deal_with_remainder on: the deal_with_remainder of
\* the class of the engine
dealing_with_remainder(self, sp, msgpack_remainder, return_remainder, partial) ==
    returned_by_call(self, sp,
                     IF self.cls = "BytestringKwargifier"
                     THEN Kwargifier_deal_with_remainder(
                              self, sp, msgpack_remainder, return_remainder)
                     ELSE deal_with_remainder(self, sp, msgpack_remainder,
                                              return_remainder),
                     partial)

\* BytestringSplitter.__call__: a list of values, the bare value of single
\* mode, or with partial the PartiallySplitBytes holding the list
__call__(self, splittable, return_remainder, msgpack_remainder, partial, single) ==
    dealing_with_remainder(self,
                           actually_split(self, splittable, return_remainder,
                                          msgpack_remainder, partial, single),
                           msgpack_remainder, return_remainder, partial)

(***************************************************************************)
(* BytestringSplitter.repeat                                               *)
(***************************************************************************)
\* the message of an iteration, never unwrapped
message_kept_as_list(items) ==
    [shape |-> "list", items |-> SubSeq(items, 1, Len(items) - 1)]

\* "*message, remainder = self(splittable, return_remainder=True)" and
\* "if len(message) == 1: message = message[0]": the entries before the
\* last, as a list, or the only one of them, bare
message_of(items) ==
    IF Len(items) = 2
    THEN [shape |-> "bare", items |-> <<items[1]>>]
    ELSE [shape |-> "list", items |-> SubSeq(items, 1, Len(items) - 1)]

\* the last entry of what the call returned: the bytes left over
remainder_of(items) == items[Len(items)].v

\* collector(message): messages.append, or messages.add of a set, which
\* holds a message once and cannot hold a list
collect(as_set, messages, message) ==
    IF ~as_set THEN Return(Append(messages, message))
    ELSE IF message.shape = "list" THEN Raise("TypeError")
    ELSE IF \E i \in 1..Len(messages) : messages[i] = message
    THEN Return(messages)
    ELSE Return(Append(messages, message))

(***************************************************************************)
(* The inputs drawn                                                        *)
(***************************************************************************)
\* the declarations engines are built from: a bare int, the bare class
\* VariableLengthBytestring, and the tuple (bytes, VariableLengthBytestring)
Decls ==
    {IntDecl(k) : k \in 0..MaxFieldLen}
        \cup {ClassDecl("VariableLengthBytestring"),
              TupleDecl("bytes", VariableLengthBytestring)}

\* the argument lists of at most n declarations, the empty one included
DeclSeqs(n) == UNION {[1..k -> Decls] : k \in 0..n}

NoCall ==
    [op |-> "", self |-> 0, splittable |-> << >>,
     return_remainder |-> FALSE, msgpack_remainder |-> FALSE,
     partial |-> FALSE, single |-> FALSE, payloads |-> << >>,
     times |-> [type |-> "int", n |-> 0], as_set |-> FALSE,
     operands |-> << >>,
     cls |-> [name |-> "", mixins |-> << >>, attrs |-> << >>],
     kwargs |-> << >>, raise_exception |-> FALSE]

NoRet == [status |-> "", exc |-> ""]

NoRep == [splittable |-> << >>, remainder |-> FALSE, messages |-> << >>]

(***************************************************************************)
(* Specification Spec: an engine is constructed and called once, on any    *)
(* buffer and with any flags                                               *)
(***************************************************************************)
Init ==
    /\ engines = << >>
    /\ pc = "new"
    /\ call = NoCall
    /\ ret = NoRet
    /\ rep = NoRep

\* BytestringSplitter(*message_parameters), for one of the argument lists
ConstructFrom(parameter_lists) ==
    /\ pc = "new"
    /\ \E message_parameters \in parameter_lists :
          LET made == __init__("BytestringSplitter", message_parameters)
          IN  IF made.status = "raise"
              THEN /\ pc' = "raised"
                   /\ ret' = made
                   /\ call' = [NoCall EXCEPT !.op = "__init__"]
                   /\ UNCHANGED <<engines, rep>>
              ELSE /\ engines' = Append(engines, made.value)
                   /\ pc' = "ready"
                   /\ UNCHANGED <<call, ret, rep>>

Construct == ConstructFrom(DeclSeqs(MaxFields))

\* splitter(splittable, return_remainder, msgpack_remainder, partial, single)
Call ==
    /\ pc = "ready"
    /\ \E splittable \in BytesUpTo(MaxBufLen),
          return_remainder \in BOOLEAN, msgpack_remainder \in BOOLEAN,
          partial \in BOOLEAN, single \in BOOLEAN :
          /\ call' = [NoCall EXCEPT !.op = "__call__", !.self = 1,
                         !.splittable = splittable,
                         !.return_remainder = return_remainder,
                         !.msgpack_remainder = msgpack_remainder,
                         !.partial = partial, !.single = single]
          /\ ret' = __call__(engines[1], splittable, return_remainder,
                             msgpack_remainder, partial, single)
    /\ pc' = "returned"
    /\ UNCHANGED <<engines, rep>>

Next == Construct \/ Call

Spec == Init /\ [][Next]_vars

(***************************************************************************)
(* Vocabulary of the properties                                            *)
(***************************************************************************)
RECURSIVE SumTo(_, _)
\* lens[1] + ... + lens[i]
SumTo(lens, i) == IF i = 0 THEN 0 ELSE SumTo(lens, i - 1) + lens[i]

\* the declared lengths of a fixed-length engine, in declaration order
FixedLens(e) ==
    [i \in 1..Len(e.message_types) |-> e.message_types[i].message_length.n]

IsFixed(e) ==
    \A i \in 1..Len(e.message_types) :
        e.message_types[i].message_length # VariableLengthBytestring

TotalFixed(e) == SumTo(FixedLens(e), Len(e.message_types))

\* b[0:n1], b[n1:n1+n2], ... as bytes values
SlicesOf(b, lens) ==
    [i \in 1..Len(lens) |->
        BytesVal(PySlice(b, SumTo(lens, i - 1), SumTo(lens, i)))]

\* a parse call of the engine has returned or raised
Called == pc = "returned" /\ call.op = "__call__"

Failed(exc) == ret.status = "raise" /\ ret.exc = exc

\* where the first declared field starts and ends in b: its length prefix,
\* when it has one, is read at offset 0
FirstStart(e) ==
    IF e.message_types[1].message_length = VariableLengthBytestring
    THEN VARIABLE_HEADER_LENGTH ELSE 0

FirstLength(e, b) ==
    IF e.message_types[1].message_length = VariableLengthBytestring
    THEN from_bytes_big(PySlice(b, 0, VARIABLE_HEADER_LENGTH))
    ELSE e.message_types[1].message_length.n

FirstEnd(e, b) == FirstStart(e) + FirstLength(e, b)

C5_RemainderAppended ==
    (/\ Called /\ ret.status = "ok"
     /\ call.return_remainder /\ ~call.msgpack_remainder) =>
        LET e == engines[1]
            k == Len(e.message_types)
            kind == IF call.partial THEN "deferred" ELSE "bytes"
        IN  /\ ret.shape = IF call.partial THEN "PartiallySplitBytes" ELSE "list"
            /\ Len(ret.items) = k + 1
            /\ ret.items[k + 1] = BytesVal(PyTail(call.splittable, ret.cursor))
            /\ \A i \in 1..k : ret.items[i].t = kind
            /\ IsFixed(e) =>
                  /\ ret.cursor = TotalFixed(e)
                  /\ [i \in 1..k |-> ret.items[i].v]
                        = [i \in 1..k |->
                              SlicesOf(call.splittable, FixedLens(e))[i].v]

\* a fixed-length engine, a buffer with bytes after its fields, and the
\* remainder returned
C5_Witness ==
    /\ Called /\ ret.status = "ok"
    /\ call.return_remainder /\ ~call.msgpack_remainder /\ ~call.partial
    /\ IsFixed(engines[1]) /\ TotalFixed(engines[1]) > 0
    /\ Len(call.splittable) > TotalFixed(engines[1])
    /\ ret.items[Len(ret.items)].v # << >>

BytesAfter(b, c) == IF c >= Len(b) THEN 0 ELSE Len(b) - c

RECURSIVE OverrunFrom(_, _, _, _, _)
\* some field among message_types[i..last], met with the cursor at c, has a
\* concrete length above the number of bytes of b left after the cursor
OverrunFrom(e, b, i, last, c) ==
    IF i > last THEN FALSE
    ELSE LET declared == e.message_types[i].message_length
             variable == declared = VariableLengthBytestring
             start == IF variable THEN c + VARIABLE_HEADER_LENGTH ELSE c
             length ==
                 IF variable
                 THEN from_bytes_big(PySlice(b, c, c + VARIABLE_HEADER_LENGTH))
                 ELSE declared.n
         IN  \/ length > BytesAfter(b, start)
             \/ OverrunFrom(e, b, i + 1, last, start + length)

\* the fields a parse goes through: all of them, or the first alone in
\* single mode
FieldsParsed(e) ==
    IF call.single /\ ~call.partial THEN 1 ELSE Len(e.message_types)

\* C4: whenever a field's concrete length (fixed, or read from a 4-byte
\* prefix) exceeds the number of bytes remaining after the cursor, the parse
\* raises BytestringSplittingError instead of returning a shortened slice.
C4_OverrunRaises ==
    (/\ Called
     /\ OverrunFrom(engines[1], call.splittable, 1,
                    FieldsParsed(engines[1]), 0))
        => Failed("BytestringSplittingError")

(***************************************************************************)
(* Specification SpecPacked: an engine is constructed and called, with the *)
(* default flags, on a message packed for it: for each declared field a    *)
(* payload, raw for a fixed-length field and as                            *)
(* bytes(VariableLengthBytestring(payload)) for a variable-length one      *)
(***************************************************************************)
PackedDecls ==
    {IntDecl(k) : k \in 0..MaxFieldLen}
        \cup {ClassDecl("VariableLengthBytestring")}

PackedDeclSeqs == UNION {[1..k -> PackedDecls] : k \in 1..MaxPackedFields}

ConstructPacked == ConstructFrom(PackedDeclSeqs)

\* the payloads a field can carry: bytes of its fixed length, or any bytes
\* up to MaxPayload for a variable-length field
PayloadsOfField(message_length) ==
    IF message_length = VariableLengthBytestring
    THEN BytesUpTo(MaxPayload)
    ELSE BytesOfLen(message_length.n)

RECURSIVE PayloadsFrom(_, _)
\* one payload per field among message_types[i..]
PayloadsFrom(e, i) ==
    IF i > Len(e.message_types) THEN {<< >>}
    ELSE {<<p>> \o rest :
             p \in PayloadsOfField(e.message_types[i].message_length),
             rest \in PayloadsFrom(e, i + 1)}

\* one payload per field of the engine
PayloadsFor(e) == PayloadsFrom(e, 1)

\* b1 + VariableLengthBytestring(m) + b2 + ...
Pack(e, payloads) ==
    Concat([i \in 1..Len(payloads) |->
               IF e.message_types[i].message_length = VariableLengthBytestring
               THEN __bytes__(payloads[i])
               ELSE payloads[i]])

CallPacked ==
    /\ pc = "ready"
    /\ \E payloads \in PayloadsFor(engines[1]) :
          LET splittable == Pack(engines[1], payloads)
          IN  /\ call' = [NoCall EXCEPT !.op = "__call__", !.self = 1,
                             !.splittable = splittable,
                             !.payloads = payloads]
              /\ ret' = __call__(engines[1], splittable,
                                 FALSE, FALSE, FALSE, FALSE)
    /\ pc' = "returned"
    /\ UNCHANGED <<engines, rep>>

NextPacked == ConstructPacked \/ CallPacked

SpecPacked == Init /\ [][NextPacked]_vars

(***************************************************************************)
(* Properties of a parse of a packed message (specification SpecPacked)    *)
(***************************************************************************)
AllPositive(lens) == \A i \in 1..Len(lens) : lens[i] >= 1

\* C1: for positive fixed lengths n1..nk and a buffer b of n1 + ... + nk
\* bytes, BytestringSplitter(n1..nk)(b) returns exactly the k slices
\* b[0:n1], b[n1:n1+n2], ... in declaration order, their lengths add up to
\* len(b), and for k = 1 the result is [b].
C1_FixedSlices ==
    (/\ Called /\ IsFixed(engines[1])
     /\ AllPositive(FixedLens(engines[1]))
     /\ Len(call.splittable) = TotalFixed(engines[1])) =>
        LET lens == FixedLens(engines[1])
            b == call.splittable
        IN  /\ ret.status = "ok" /\ ret.shape = "list"
            /\ Len(ret.items) = Len(lens)
            /\ ret.items = SlicesOf(b, lens)
            /\ SumTo([i \in 1..Len(ret.items) |-> Len(ret.items[i].v)],
                     Len(ret.items)) = Len(b)
            /\ Len(lens) = 1 => ret.items = <<BytesVal(b)>>

\* three positive fixed fields, and a buffer whose first two slices differ
C1_Witness ==
    /\ Called /\ IsFixed(engines[1])
    /\ Len(engines[1].message_types) = 3
    /\ AllPositive(FixedLens(engines[1]))
    /\ ret.status = "ok"
    /\ Len(ret.items) = 3
    /\ ret.items[1] # ret.items[2]
    /\ Len(ret.items[3].v) = 2

\* the engine is (n1, VariableLengthBytestring, n2)
FixedVariableFixed(e) ==
    /\ Len(e.message_types) = 3
    /\ e.message_types[1].message_length # VariableLengthBytestring
    /\ e.message_types[2].message_length = VariableLengthBytestring
    /\ e.message_types[3].message_length # VariableLengthBytestring

\* C2: a variable-length field is read as a 4-byte big-endian length L at
\* the cursor followed by exactly L bytes, which are its value, without the
\* prefix: every engine with such fields, called on the message packed from
\* one payload per field, returns these payloads in order, and so
\* (n1, VARIABLE, n2) called on b1 + prefix(len(m)) + m + b2 returns
\* [b1, m, b2], the 4 bytes after b1 holding len(m).
C2_VariableRoundTrip ==
    (Called /\ engines[1].is_variable_length) =>
        /\ ret.status = "ok" /\ ret.shape = "list"
        /\ ret.items = [i \in 1..Len(call.payloads) |->
                           BytesVal(call.payloads[i])]
        /\ ret.cursor = Len(call.splittable)
        /\ FixedVariableFixed(engines[1]) =>
              LET n1 == Len(call.payloads[1])
                  m == call.payloads[2]
              IN  /\ call.splittable =
                        call.payloads[1] \o <<0, 0, 0, Len(m)>> \o m
                            \o call.payloads[3]
                  /\ ret.items[2].v = PySlice(call.splittable,
                                              n1 + VARIABLE_HEADER_LENGTH,
                                              n1 + VARIABLE_HEADER_LENGTH + Len(m))

\* (n1, VARIABLE, n2) with n1, n2 > 0 returned a non-empty middle payload
C2_Witness ==
    /\ Called /\ FixedVariableFixed(engines[1])
    /\ ret.status = "ok"
    /\ Len(call.payloads[1]) > 0 /\ Len(call.payloads[3]) > 0
    /\ Len(call.payloads[2]) = 2
    /\ ret.items[2] = BytesVal(call.payloads[2])

(***************************************************************************)
(* Specification SpecCompose: two fixed-length engines A = engines[1] and  *)
(* B = engines[2] are constructed; then either A + B is formed and called  *)
(* on bufA + bufB, or A * N is formed and called on bufA repeated N times  *)
(***************************************************************************)
OperandDeclSeqs ==
    UNION {[1..k -> {IntDecl(n) : n \in 0..MaxOperandLen}] :
              k \in 1..MaxOperandFields}

\* the factors drawn: the ints -1..MaxTimes and the float 2.0
Factors ==
    {[type |-> "int", n |-> k] : k \in (0 - 1)..MaxTimes}
        \cup {[type |-> "float", n |-> 2]}

ConstructOperand ==
    /\ pc = "new"
    /\ \E message_parameters \in OperandDeclSeqs :
          LET made == __init__("BytestringSplitter", message_parameters)
          IN  /\ made.status = "ok"
              /\ engines' = Append(engines, made.value)
    /\ pc' = IF Len(engines) = 1 THEN "ready" ELSE "new"
    /\ UNCHANGED <<call, ret, rep>>

\* splitter_sum = A + B
Add ==
    /\ pc = "ready"
    /\ LET sum == __add__(engines[1], engines[2])
       IN  IF sum.status = "raise"
           THEN /\ ret' = sum
                /\ pc' = "raised"
                /\ UNCHANGED engines
           ELSE /\ engines' = Append(engines, sum.value)
                /\ ret' = Return(Len(engines) + 1)
                /\ pc' = "added"
    /\ call' = [NoCall EXCEPT !.op = "__add__", !.self = 1]
    /\ UNCHANGED rep

\* splitter_sum(bufA + bufB)
CallSum ==
    /\ pc = "added"
    /\ \E bufA \in BytesOfLen(__len__(engines[1])),
          bufB \in BytesOfLen(__len__(engines[2])) :
          /\ call' = [NoCall EXCEPT !.op = "__call__", !.self = ret.value,
                         !.splittable = bufA \o bufB,
                         !.payloads = <<bufA, bufB>>]
          /\ ret' = __call__(engines[ret.value], bufA \o bufB,
                             FALSE, FALSE, FALSE, FALSE)
    /\ pc' = "returned"
    /\ UNCHANGED <<engines, rep>>

\* product = A * times; for times <= 1 the product is A itself, otherwise a
\* new engine
Mul ==
    /\ pc = "ready"
    /\ \E times \in Factors :
          LET product == __mul__(engines[1], times)
          IN  /\ call' = [NoCall EXCEPT !.op = "__mul__", !.self = 1,
                             !.times = times]
              /\ IF product.status = "raise"
                 THEN /\ ret' = product
                      /\ pc' = "raised"
                      /\ UNCHANGED engines
                 ELSE /\ pc' = "multiplied"
                      /\ IF times.n <= 1
                         THEN /\ ret' = Return(1)
                              /\ UNCHANGED engines
                         ELSE /\ ret' = Return(Len(engines) + 1)
                              /\ engines' = Append(engines, product.value)
    /\ UNCHANGED rep

RECURSIVE Repeated(_, _)
\* buf * n
Repeated(buf, n) == IF n <= 0 THEN << >> ELSE buf \o Repeated(buf, n - 1)

\* product(bufA * times)
CallProduct ==
    /\ pc = "multiplied"
    /\ \E bufA \in BytesOfLen(__len__(engines[1])) :
          LET splittable == Repeated(bufA, call.times.n)
          IN  /\ call' = [call EXCEPT !.op = "__call__", !.self = ret.value,
                             !.splittable = splittable,
                             !.payloads = <<bufA>>]
              /\ ret' = __call__(engines[ret.value], splittable,
                                 FALSE, FALSE, FALSE, FALSE)
    /\ pc' = "returned"
    /\ UNCHANGED <<engines, rep>>

NextCompose == ConstructOperand \/ Add \/ CallSum \/ Mul \/ CallProduct

SpecCompose == Init /\ [][NextCompose]_vars

(***************************************************************************)
(* Properties of + and * (specification SpecCompose)                       *)
(***************************************************************************)
SumCalled == pc = "returned" /\ call.op = "__call__" /\ Len(call.payloads) = 2

ProductCalled ==
    pc = "returned" /\ call.op = "__call__" /\ Len(call.payloads) = 1

RECURSIVE Copies(_, _)
\* n copies of the sequence s, one after the other
Copies(s, n) == IF n <= 0 THEN << >> ELSE s \o Copies(s, n - 1)

\* what (A + B)(bufA + bufB) has to return
C7_SumParsesAsParts ==
    SumCalled =>
        LET A == engines[1]
            B == engines[2]
            bufA == call.payloads[1]
            bufB == call.payloads[2]
        IN  /\ ret.status = "ok" /\ ret.shape = "list"
            /\ ret.items =
                  __call__(A, bufA, FALSE, FALSE, FALSE, FALSE).items
                      \o __call__(B, bufB, FALSE, FALSE, FALSE, FALSE).items
            /\ ret.items =
                  SlicesOf(bufA, FixedLens(A)) \o SlicesOf(bufB, FixedLens(B))

\* what A + B has to be: a third engine, its fields A's and then B's
C7_SumHasBothFields ==
    (pc = "added") =>
        /\ Len(engines) = 3 /\ ret.value = 3
        /\ engines[3].message_types =
              engines[1].message_types \o engines[2].message_types
        /\ engines[3]._length = engines[1]._length + engines[2]._length

\* a step that forms A + B leaves A and B as they were
C7_OperandsKept ==
    (pc = "ready" /\ pc' = "added") =>
        /\ engines'[1] = engines[1]
        /\ engines'[2] = engines[2]

\* C7: for fixed-length splitters A and B and buffers of their lengths,
\* (A + B)(bufA + bufB) is A(bufA) followed by B(bufB); A + B is a new engine
\* whose fields are A's fields and then B's; A and B are left unchanged.
C7_Add ==
    /\ [](C7_SumParsesAsParts /\ C7_SumHasBothFields)
    /\ [][C7_OperandsKept]_vars

\* A = (1, 0) or the like and a B with other fields: the sum was called and
\* returned A's slices and then B's
C7_Witness ==
    /\ SumCalled /\ ret.status = "ok"
    /\ Len(engines[1].message_types) = 2
    /\ engines[1].message_types # engines[2].message_types
    /\ engines[1]._length > 0 /\ engines[2]._length > 0
    /\ call.payloads[1] # call.payloads[2]
    /\ Len(ret.items) = Len(engines[1].message_types)
                            + Len(engines[2].message_types)

\* C8: for a splitter S of fixed raw-bytes fields and every positive int N,
\* S * N is an engine whose fields are N copies of S's fields, of total
\* fixed length N * len(S), and the results of (S * N)(buf repeated N times)
\* concatenate back to the repeated buffer.
C8_Mul ==
    /\ (pc = "multiplied" /\ call.times.n >= 1) =>
          /\ ret.status = "ok"
          /\ engines[ret.value].message_types =
                Copies(engines[1].message_types, call.times.n)
          /\ __len__(engines[ret.value]) = call.times.n * __len__(engines[1])
          /\ IsFixed(engines[ret.value])
    /\ (ProductCalled /\ call.times.n >= 1) =>
          /\ ret.status = "ok" /\ ret.shape = "list"
          /\ Len(ret.items) = call.times.n * Len(engines[1].message_types)
          /\ Concat([i \in 1..Len(ret.items) |-> ret.items[i].v])
                = call.splittable
          /\ call.splittable = Copies(call.payloads[1], call.times.n)

\* a two-field S multiplied by 3 and called on a non-empty record, 3 times
C8_Witness ==
    /\ ProductCalled /\ call.times.n = 3 /\ ret.status = "ok"
    /\ Len(engines[1].message_types) = 2
    /\ Len(call.payloads[1]) = 2
    /\ call.payloads[1][1] # call.payloads[1][2]
    /\ Len(ret.items) = 6

\* C9: multiplying an engine by N raises a configuration error for every N
\* that is not a positive integer, 0 and the negative ints included, and
\* returns no engine.
C9_NonPositiveFactorRaises ==
    (/\ call.op = "__mul__" /\ pc \in {"multiplied", "raised"}
     /\ ~(call.times.type = "int" /\ call.times.n >= 1))
        => ret.status = "raise"

(***************************************************************************)
(* Specification SpecRepeat: an engine is constructed and                  *)
(* repeat(splittable, as_set) runs on it, one iteration of its loop a step *)
(***************************************************************************)
\* the iterations the model follows a repeat for: one more than a loop that
\* shrinks its buffer every time can make
MaxMessages == MaxBufLen + 1

\* repeat is entered: "remainder = True", an empty collection
RepeatStart ==
    /\ pc = "ready"
    /\ \E splittable \in BytesUpTo(MaxBufLen), as_set \in BOOLEAN :
          /\ call' = [NoCall EXCEPT !.op = "repeat", !.self = 1,
                         !.splittable = splittable, !.as_set = as_set]
          /\ rep' = [splittable |-> splittable, remainder |-> TRUE,
                     messages |-> << >>]
    /\ pc' = "repeat"
    /\ UNCHANGED <<engines, ret>>

\* one iteration of "while remainder"
RepeatIter ==
    /\ pc = "repeat"
    /\ rep.remainder
    /\ Len(rep.messages) < MaxMessages
    /\ LET got == __call__(engines[call.self], rep.splittable,
                           TRUE, FALSE, FALSE, FALSE)
           collected == collect(call.as_set, rep.messages,
                                message_of(got.items))
       IN  IF got.status = "raise"
           THEN /\ ret' = got
                /\ pc' = "raised"
                /\ UNCHANGED rep
           ELSE IF collected.status = "raise"
           THEN /\ ret' = collected
                /\ pc' = "raised"
                /\ UNCHANGED rep
           ELSE /\ rep' = [splittable |-> remainder_of(got.items),
                           remainder |-> remainder_of(got.items) # << >>,
                           messages |-> collected.value]
                /\ UNCHANGED <<ret, pc>>
    /\ UNCHANGED <<engines, call>>

\* the loop is left: "return messages"
RepeatReturn ==
    /\ pc = "repeat"
    /\ ~rep.remainder
    /\ ret' = Return(rep.messages)
    /\ pc' = "returned"
    /\ UNCHANGED <<engines, call, rep>>

NextRepeat == Construct \/ RepeatStart \/ RepeatIter \/ RepeatReturn

SpecRepeat == Init /\ [][NextRepeat]_vars

(***************************************************************************)
(* Properties of repeat (specification SpecRepeat)                         *)
(***************************************************************************)
\* the engine has one fixed field, of n >= 1 bytes, and the buffer repeat
\* was called on is N >= 1 records of n bytes
OneFieldRecords ==
    /\ call.op = "repeat" /\ ~call.as_set
    /\ Len(engines[1].message_types) = 1
    /\ IsFixed(engines[1])
    /\ engines[1]._length >= 1
    /\ Len(call.splittable) >= 1
    /\ Len(call.splittable) % engines[1]._length = 0

\* C10: for a splitter of one fixed field of n bytes and a buffer of N >= 1
\* records of n bytes, repeat returns a list of exactly N entries, the i-th
\* the i-th record as a bare value, in input order; every iteration parses
\* what the one before left over.
C10_RepeatRecords ==
    OneFieldRecords =>
        LET n == engines[1]._length
            N == Len(call.splittable) \div n
            record(i) ==
                [shape |-> "bare",
                 items |-> <<BytesVal(PySlice(call.splittable,
                                              (i - 1) * n, i * n))>>]
        IN  /\ pc # "raised"
            /\ pc = "repeat" =>
                  /\ rep.splittable =
                        PyTail(call.splittable, n * Len(rep.messages))
                  /\ rep.messages = [i \in 1..Len(rep.messages) |-> record(i)]
                  /\ Len(rep.messages) <= N
            /\ pc = "returned" =>
                  /\ ret.status = "ok"
                  /\ Len(ret.value) = N
                  /\ ret.value = [i \in 1..N |-> record(i)]

\* repeat returned three or more records that are not all equal
C10_Witness ==
    /\ OneFieldRecords /\ pc = "returned" /\ ret.status = "ok"
    /\ Len(ret.value) >= 3
    /\ ret.value[1] # ret.value[2]

(***************************************************************************)
(* Termination of repeat                                                   *)
(***************************************************************************)
\* the iterations a shrinking loop can make on a buffer: one per byte, and
\* one on the empty buffer
IterationBound(buffer) == IF Len(buffer) = 0 THEN 1 ELSE Len(buffer)

\* an iteration of "while remainder" that goes on to another one
LoopsOn == pc = "repeat" /\ pc' = "repeat" /\ rep'.remainder

\* C11: every call of repeat on any constructible engine, those with fields
\* of length 0 included, and any finite buffer terminates: an iteration
\* after which the loop goes on has left strictly fewer bytes to parse than
\* it was given, so that the loop makes no more iterations than the buffer
\* allows.
C11_RepeatTerminates ==
    /\ [][LoopsOn => Len(rep'.splittable) < Len(rep.splittable)]_vars
    /\ [](pc = "repeat" =>
             Len(rep.messages) <= IterationBound(call.splittable))

(***************************************************************************)
(* VariableLengthBytestring: bundle, dispense, __eq__                      *)
(***************************************************************************)
\* most items of a bundled collection, and the longest of them
MaxItems == 3
MaxItemLen == 2

\* a VariableLengthBytestring object: v is its message_as_bytes
VLBVal(message) ==
    [t |-> "VariableLengthBytestring", v |-> message, cls |-> ""]

\* bytes(x) for the two kinds of object compared here: bytes itself, and a
\* VariableLengthBytestring, whose __bytes__ puts the length before the message
bytes_of(x) ==
    IF x.t = "VariableLengthBytestring" THEN __bytes__(x.v) ELSE x.v

\* VariableLengthBytestring.bundle(collection): the object made of the
\* joined bytes(VariableLengthBytestring(i)) of the items
bundle(collection) ==
    VLBVal(Concat([i \in 1..Len(collection) |-> __bytes__(collection[i])]))

RECURSIVE repeat_loop(_, _, _, _)
\* BytestringSplitter.repeat from an iteration on: "while remainder"
repeat_loop(self, splittable, as_set, messages) ==
    LET got == __call__(self, splittable, TRUE, FALSE, FALSE, FALSE)
    IN  IF got.status = "raise" THEN got
        ELSE LET collected == collect(as_set, messages, message_of(got.items))
                 remainder == remainder_of(got.items)
             IN  IF collected.status = "raise" THEN collected
                 ELSE IF remainder = << >> THEN Return(collected.value)
                 ELSE repeat_loop(self, remainder, as_set, collected.value)

\* BytestringSplitter.repeat(splittable, as_set), as one call
repeat(self, splittable, as_set) ==
    repeat_loop(self, splittable, as_set, << >>)

\* the items dispense returns when the message does not split
message_alone(message) ==
    Return(<<[shape |-> "bare", items |-> <<BytesVal(message)>>]>>)

\* VariableLengthBytestring.dispense(bytestring)
dispense(bytestring) ==
    LET message_length ==
            from_bytes_big(PySlice(bytestring, 0, VARIABLE_HEADER_LENGTH))
        message == PyTail(bytestring, VARIABLE_HEADER_LENGTH)
        splitter == __init__("BytestringSplitter",
                             <<ClassDecl("VariableLengthBytestring")>>)
    IN  IF message_length # Len(message)
        THEN Raise("BytestringSplittingError")
        ELSE LET items == repeat(splitter.value, message, FALSE)
             IN  IF items.status = "raise"
                    /\ items.exc = "BytestringSplittingError"
                 THEN message_alone(message)
                 ELSE items

\* VariableLengthBytestring.__eq__(self, other)
__eq__(self, other) == self.v = bytes_of(other)

(***************************************************************************)
(* Specification SpecVariableLength: a collection is bundled and its bytes *)
(* dispensed; a VariableLengthBytestring is compared with another object   *)
(***************************************************************************)
\* the collections bundled: up to MaxItems byte strings, empty ones included
ItemSeqs ==
    UNION {[1..n -> BytesUpTo(MaxItemLen)] : n \in 0..MaxItems}

\* the objects a VariableLengthBytestring of payload m is compared with:
\* raw bytes and VariableLengthBytestrings of any payload, and the raw bytes
\* that are the serialization of one
Others ==
    UNION {{BytesVal(m), VLBVal(m), BytesVal(__bytes__(m))} :
              m \in BytesUpTo(MaxItemLen)}

\* bytes(VariableLengthBytestring.bundle(items))
Bundle ==
    /\ pc = "new"
    /\ \E items \in ItemSeqs :
          call' = [NoCall EXCEPT !.op = "bundle", !.payloads = items,
                                 !.splittable = bytes_of(bundle(items))]
    /\ pc' = "bundled"
    /\ UNCHANGED <<engines, ret, rep>>

\* VariableLengthBytestring.dispense of the bundled bytes
Dispense ==
    /\ pc = "bundled"
    /\ call' = [call EXCEPT !.op = "dispense"]
    /\ ret' = dispense(call.splittable)
    /\ pc' = IF ret'.status = "raise" THEN "raised" ELSE "returned"
    /\ UNCHANGED <<engines, rep>>

\* VariableLengthBytestring(m) == other
Compare ==
    /\ pc = "new"
    /\ \E m \in BytesUpTo(MaxItemLen), other \in Others :
          /\ call' = [NoCall EXCEPT !.op = "__eq__",
                                    !.operands = <<VLBVal(m), other>>]
          /\ ret' = [status |-> "ok", exc |-> "",
                     equal |-> __eq__(VLBVal(m), other)]
    /\ pc' = "compared"
    /\ UNCHANGED <<engines, rep>>

NextVariableLength == Bundle \/ Dispense \/ Compare

SpecVariableLength == Init /\ [][NextVariableLength]_vars

\* dispense has returned the items of the bundled collection
Dispensed == call.op = "dispense" /\ pc \in {"returned", "raised"}

\* C12: for every sequence items of byte strings, the empty sequence and
\* empty byte strings included, dispense(bytes(bundle(items))) returns a
\* sequence equal to items: as many entries, the same ones, in order.
C12_BundleDispenseRoundTrip ==
    Dispensed =>
        /\ ret.status = "ok"
        /\ Len(ret.value) = Len(call.payloads)
        /\ \A i \in 1..Len(call.payloads) :
              ret.value[i] = [shape |-> "bare",
                              items |-> <<BytesVal(call.payloads[i])>>]

\* C13: equality of a VariableLengthBytestring v is decided by payload
\* content only: v == other holds exactly when the payload of v equals the
\* payload of other, whether other is raw bytes (its own payload) or another
\* VariableLengthBytestring; two built from the same payload compare equal.
C13_EqualityByPayload ==
    pc = "compared" =>
        (ret.equal <=> call.operands[1].v = call.operands[2].v)

(***************************************************************************)
(* Header mixins                                                           *)
(*                                                                         *)
(* A header value is a tagged record like a result entry: an int carries   *)
(* <<k>>, a str the bytes it was decoded from.  None and "no such keyword  *)
(* or attribute" are values of their own.  A mixin is its class            *)
(* attributes, a composed class the mixins of its MRO in order and the     *)
(* attributes its own body sets.                                           *)
(***************************************************************************)
NoneVal == [t |-> "None", v |-> << >>, cls |-> ""]
Absent == [t |-> "absent", v |-> << >>, cls |-> ""]
StrVal(b) == [t |-> "str", v |-> b, cls |-> ""]

\* bool(x) of a header value
Truthy(x) ==
    CASE x.t = "int" -> x.v[1] # 0
      [] x.t \in {"bytes", "str"} -> x.v # << >>
      [] OTHER -> FALSE

\* "a or b"
Or(a, b) == IF Truthy(a) THEN a ELSE b

\* kwargs.get(tag, None), getattr(cls, tag, None): None when there is none
OrNone(x) == IF x = Absent THEN NoneVal ELSE x

VersioningMixin ==
    [name |-> "VersioningMixin", METADATA_TAG |-> "version",
     HEADER_LENGTH |-> 2, default |-> Absent]

StructureChecksumMixin ==
    [name |-> "StructureChecksumMixin", METADATA_TAG |-> "checksum",
     HEADER_LENGTH |-> 4, default |-> Absent]

\* b'deafbeef'
AddsDeadBeefMixin ==
    [name |-> "AddsDeadBeefMixin", METADATA_TAG |-> "funny_bytes_pun",
     HEADER_LENGTH |-> 8,
     default |-> BytesVal(<<100, 101, 97, 102, 98, 101, 101, 102>>)]

AddsBadFoodMixin ==
    [name |-> "AddsBadFoodMixin", METADATA_TAG |-> "bed_food_bytes",
     HEADER_LENGTH |-> 7, default |-> Absent]

\* b'fee15bed'
FeelingsMixin ==
    [name |-> "FeelingsMixin", METADATA_TAG |-> "current_feeling",
     HEADER_LENGTH |-> 8,
     default |-> BytesVal(<<102, 101, 101, 49, 53, 98, 101, 100>>)]

\* the tags of a chain of mixins
TagsOf(mixins) == {mixins[i].METADATA_TAG : i \in 1..Len(mixins)}

\* a class composed of mixins and BytestringSplitter whose body sets nothing
Composed(name, mixins) ==
    [name |-> name, mixins |-> mixins,
     attrs |-> [tag \in TagsOf(mixins) |-> Absent]]

VersionedBytestringSplitter ==
    Composed("VersionedBytestringSplitter", <<VersioningMixin>>)

AddsDeadBeefSplitter ==
    Composed("AddsDeadBeefSplitter", <<AddsDeadBeefMixin>>)

ChecksumVerifyingSplitter ==
    Composed("ChecksumVerifyingSplitter", <<StructureChecksumMixin>>)

AllMannerOfHeaders ==
    <<VersioningMixin, FeelingsMixin, AddsBadFoodMixin, AddsDeadBeefMixin>>

AddsAllMannerOfHeadersSplitter ==
    Composed("AddsAllMannerOfHeadersSplitter", AllMannerOfHeaders)

\* version = 666, funny_bytes_pun = b'beefdeaf',
\* current_feeling = b'f331600d', bed_food_bytes = b'deafc0d'
LocalOverridesSplitter ==
    [name |-> "LocalOverridesSplitter", mixins |-> AllMannerOfHeaders,
     attrs |->
        [tag \in TagsOf(AllMannerOfHeaders) |->
            CASE tag = "version" -> IntVal(666)
              [] tag = "funny_bytes_pun" ->
                    BytesVal(<<98, 101, 101, 102, 100, 101, 97, 102>>)
              [] tag = "current_feeling" ->
                    BytesVal(<<102, 51, 51, 49, 54, 48, 48, 100>>)
              [] tag = "bed_food_bytes" ->
                    BytesVal(<<100, 101, 97, 102, 99, 48, 100>>)]]

\* the composed classes
ComposedClasses ==
    {VersionedBytestringSplitter, AddsDeadBeefSplitter,
     ChecksumVerifyingSplitter, AddsAllMannerOfHeadersSplitter,
     LocalOverridesSplitter}

\* the mixin of a class that carries a tag
MixinOf(cls, tag) ==
    CHOOSE m \in {cls.mixins[i] : i \in 1..Len(cls.mixins)} :
        m.METADATA_TAG = tag

\* getattr(cls, tag) on a composed class: what its body sets, or else what
\* the mixin of that tag sets; Absent when hasattr(cls, tag) is false
getattr(cls, tag) ==
    IF cls.attrs[tag] # Absent THEN cls.attrs[tag]
    ELSE MixinOf(cls, tag).default

hasattr(cls, tag) == getattr(cls, tag) # Absent

\* the same sequence backwards: mixins[::-1]
Reversed(s) == [i \in 1..Len(s) |-> s[Len(s) + 1 - i]]

\* the mixins in declaration order whatever is asked
mixins_as_declared(cls, reversed) == cls.mixins

\* HeaderMetaDataMixinBase._get_ordered_mixins
_get_ordered_mixins(cls, reversed) ==
    IF reversed THEN Reversed(cls.mixins) ELSE cls.mixins

\* the mixins whose _deserialize_metadata is data_bytes.decode('ascii')
DecodesAscii ==
    {"AddsDeadBeefMixin", "AddsBadFoodMixin", "FeelingsMixin"}

\* subclass._serialize_metadata(data): VersioningMixin's
\* value.to_bytes(HEADER_LENGTH, "big"), AddsDeadBeefMixin's
\* "value or cls.funny_bytes_pun", the base class's identity
_serialize_metadata(subclass, data) ==
    IF subclass.name = "VersioningMixin"
    THEN IF data.t # "int" THEN Raise("AttributeError")
         ELSE IF data.v[1] < 0 \/ data.v[1] >= 256 * 256
         THEN Raise("OverflowError")
         ELSE Return(BytesVal(to_bytes_big(data.v[1],
                                           subclass.HEADER_LENGTH)))
    ELSE IF subclass.name = "AddsDeadBeefMixin"
    THEN Return(Or(data, OrNone(subclass.default)))
    ELSE Return(data)

\* subclass._deserialize_metadata(data_bytes): VersioningMixin's
\* int.from_bytes, the decode('ascii') of the mixins of the tests, the base
\* class's identity
_deserialize_metadata(subclass, data_bytes) ==
    IF subclass.name = "VersioningMixin"
    THEN Return(IntVal(from_bytes_big(data_bytes)))
    ELSE IF subclass.name \in DecodesAscii
    THEN IF \E i \in 1..Len(data_bytes) : data_bytes[i] >= 128
         THEN Raise("UnicodeDecodeError")
         ELSE Return(StrVal(data_bytes))
    ELSE Return(BytesVal(data_bytes))

\* HeaderMetaDataMixinBase._prepend_metadata: data + some_bytes
_prepend_metadata(data, some_bytes) ==
    IF data.t # "bytes" THEN Raise("TypeError")
    ELSE Return(data.v \o some_bytes)

\* HeaderMetaDataMixinBase._assign_metadata, called on a mixin; no mixin
\* has an attribute _input_<tag>
_assign_metadata(subclass, some_bytes, kwargs) ==
    LET data == Or(Or(OrNone(kwargs[subclass.METADATA_TAG]), NoneVal),
                   OrNone(subclass.default))
    IN  IF ~Truthy(data) THEN Raise("ValueError")
        ELSE LET serialized == _serialize_metadata(subclass, data)
             IN  IF serialized.status = "raise" THEN serialized
                 ELSE _prepend_metadata(serialized.value, some_bytes)

RECURSIVE AssignFrom(_, _, _, _, _)
\* the loop of assign_metadata from the i-th of the mixins on
AssignFrom(cls, mixins, i, some_bytes, kwargs) ==
    IF i > Len(mixins) THEN Return(some_bytes)
    ELSE LET subclass == mixins[i]
             tag == subclass.METADATA_TAG
             passed == IF hasattr(cls, tag) /\ ~Truthy(OrNone(kwargs[tag]))
                       THEN [kwargs EXCEPT ![tag] = getattr(cls, tag)]
                       ELSE kwargs
             assigned == _assign_metadata(subclass, some_bytes, passed)
         IN  IF assigned.status = "raise" THEN assigned
             ELSE AssignFrom(cls, mixins, i + 1, assigned.value, passed)

\* HeaderMetaDataMixinBase.assign_metadata(some_bytes, **kwargs)
assign_metadata(cls, some_bytes, kwargs) ==
    AssignFrom(cls, _get_ordered_mixins(cls, TRUE), 1, some_bytes, kwargs)

\* HeaderMetaDataMixinBase._strip_metadata
_strip_metadata(subclass, some_bytes) ==
    PyTail(some_bytes, subclass.HEADER_LENGTH)

\* strip_metadata removing the bytes of the first header alone
strip_first_header(cls, some_bytes) ==
    _strip_metadata(cls.mixins[1], some_bytes)

RECURSIVE StripFrom(_, _, _)
\* the loop of strip_metadata from the i-th of the mixins on
StripFrom(mixins, i, some_bytes) ==
    IF i > Len(mixins) THEN some_bytes
    ELSE StripFrom(mixins, i + 1, _strip_metadata(mixins[i], some_bytes))

\* HeaderMetaDataMixinBase.strip_metadata
strip_metadata(cls, some_bytes) ==
    StripFrom(_get_ordered_mixins(cls, FALSE), 1, some_bytes)

\* HeaderMetaDataMixinBase._get_metadata: the value under the mixin's tag
_get_metadata(subclass, some_bytes) ==
    _deserialize_metadata(subclass,
                          PySlice(some_bytes, 0, subclass.HEADER_LENGTH))

RECURSIVE GetFrom(_, _, _, _)
\* the loop of get_metadata from the i-th of the mixins on
GetFrom(mixins, i, some_bytes, data) ==
    IF i > Len(mixins) THEN Return(data)
    ELSE LET got == _get_metadata(mixins[i], some_bytes)
         IN  IF got.status = "raise" THEN got
             ELSE GetFrom(mixins, i + 1,
                          _strip_metadata(mixins[i], some_bytes),
                          [data EXCEPT ![mixins[i].METADATA_TAG] = got.value])

\* HeaderMetaDataMixinBase.get_metadata: the dictionary, Absent under a
\* tag it has no entry for
get_metadata(cls, some_bytes) ==
    GetFrom(_get_ordered_mixins(cls, FALSE), 1, some_bytes,
            [tag \in TagsOf(cls.mixins) |-> Absent])

(***************************************************************************)
(* Specification SpecHeaders: headers are assigned to a buffer by a        *)
(* composed class, then stripped or read back                              *)
(***************************************************************************)
\* longest buffer headers are assigned to
MaxHeaderBufLen == 2

\* the versions passed as version=...
VersionsDrawn == {0, 1, 2, 255, 256, 65535}

\* the values passed under a mixin's tag: ints for the version, byte
\* strings of the header's length for the others (b'\x00\x00\x00\x00' and
\* b'A\x8c\x8b\x86', b'facefeed', b'01dbeef' and b'feedc0d', b'fee1deaf')
ValuesDrawn(mixin) ==
    CASE mixin.name = "VersioningMixin" -> {IntVal(v) : v \in VersionsDrawn}
      [] mixin.name = "StructureChecksumMixin" ->
            {BytesVal(<<0, 0, 0, 0>>), BytesVal(<<65, 140, 139, 134>>)}
      [] mixin.name = "AddsDeadBeefMixin" ->
            {BytesVal(<<102, 97, 99, 101, 102, 101, 101, 100>>)}
      [] mixin.name = "AddsBadFoodMixin" ->
            {BytesVal(<<48, 49, 100, 98, 101, 101, 102>>),
             BytesVal(<<102, 101, 101, 100, 99, 48, 100>>)}
      [] mixin.name = "FeelingsMixin" ->
            {BytesVal(<<102, 101, 101, 49, 100, 101, 97, 102>>)}

\* the keyword arguments passed to a class: under each tag a value drawn
\* for it, or nothing
KwargsDrawn(cls) ==
    LET all == UNION {ValuesDrawn(cls.mixins[i]) : i \in 1..Len(cls.mixins)}
    IN  {kwargs \in [TagsOf(cls.mixins) -> all \cup {Absent}] :
            \A tag \in TagsOf(cls.mixins) :
                kwargs[tag] \in ValuesDrawn(MixinOf(cls, tag)) \cup {Absent}}

\* cls.assign_metadata(some_bytes, **kwargs)
Assign ==
    /\ pc = "new"
    /\ \E cls \in ComposedClasses :
          \E some_bytes \in BytesUpTo(MaxHeaderBufLen),
             kwargs \in KwargsDrawn(cls) :
             /\ call' = [NoCall EXCEPT !.op = "assign_metadata", !.cls = cls,
                                       !.splittable = some_bytes,
                                       !.kwargs = kwargs]
             /\ ret' = assign_metadata(cls, some_bytes, kwargs)
    /\ pc' = IF ret'.status = "raise" THEN "raised" ELSE "assigned"
    /\ UNCHANGED <<engines, rep>>

\* cls.strip_metadata of the bytes assign_metadata returned
Strip ==
    /\ pc = "assigned"
    /\ call' = [call EXCEPT !.op = "strip_metadata"]
    /\ ret' = Return(strip_metadata(call.cls, ret.value))
    /\ pc' = "stripped"
    /\ UNCHANGED <<engines, rep>>

\* cls.get_metadata of the bytes assign_metadata returned
GetMetadata ==
    /\ pc = "assigned"
    /\ call' = [call EXCEPT !.op = "get_metadata"]
    /\ ret' = get_metadata(call.cls, ret.value)
    /\ pc' = IF ret'.status = "raise" THEN "raised" ELSE "read"
    /\ UNCHANGED <<engines, rep>>

NextHeaders == Assign \/ Strip \/ GetMetadata

SpecHeaders == Init /\ [][NextHeaders]_vars

\* the header lengths of the first i mixins of a chain, added up
RECURSIVE HeaderLengthUpTo(_, _)
HeaderLengthUpTo(mixins, i) ==
    IF i = 0 THEN 0
    ELSE HeaderLengthUpTo(mixins, i - 1) + mixins[i].HEADER_LENGTH

TotalHeaderLength(cls) == HeaderLengthUpTo(cls.mixins, Len(cls.mixins))

\* the bytes of out where the i-th declared header of cls lies
HeaderBytes(cls, i, out) ==
    PySlice(out, HeaderLengthUpTo(cls.mixins, i - 1),
            HeaderLengthUpTo(cls.mixins, i))

\* the wire form of a value of the i-th header: two big-endian bytes of a
\* version, the bytes themselves of any other
Wire(mixin, x) ==
    IF mixin.name = "VersioningMixin"
    THEN <<x.v[1] \div 256, x.v[1] % 256>>
    ELSE x.v

\* the values a header of cls may be given by a call: the keyword argument,
\* the attribute of the composed class, the default of the mixin
Candidates(cls, kwargs, i) ==
    {kwargs[cls.mixins[i].METADATA_TAG],
     cls.attrs[cls.mixins[i].METADATA_TAG],
     cls.mixins[i].default} \ {Absent}

\* assign_metadata has returned
Assigned == call.op = "assign_metadata" /\ pc = "assigned"

\* C14: assign_metadata on a class composed of header mixins H1..Hk, in
\* declaration order, returns ser(H1) + ... + ser(Hk) + buffer: the header
\* declared first lies leftmost, the i-th at the offset that is the sum of
\* the header lengths before it, each one the wire form of a value given
\* for its own tag (the keyword argument when one is passed and truthy); the
\* buffer follows unchanged, and the output is longer than the buffer by the
\* sum of the header lengths.
C14_HeadersInDeclarationOrder ==
    Assigned =>
        LET cls == call.cls
            out == ret.value
        IN  /\ Len(out) = Len(call.splittable) + TotalHeaderLength(cls)
            /\ PyTail(out, TotalHeaderLength(cls)) = call.splittable
            /\ \A i \in 1..Len(cls.mixins) :
                  LET passed == call.kwargs[cls.mixins[i].METADATA_TAG]
                  IN  /\ \E x \in Candidates(cls, call.kwargs, i) :
                            HeaderBytes(cls, i, out) = Wire(cls.mixins[i], x)
                      /\ Truthy(passed) =>
                            HeaderBytes(cls, i, out)
                                = Wire(cls.mixins[i], passed)

\* four headers were assigned from four keyword arguments, before a payload
C14_Witness ==
    /\ Assigned
    /\ Len(call.cls.mixins) = 4
    /\ \A tag \in TagsOf(call.cls.mixins) : Truthy(call.kwargs[tag])
    /\ call.splittable # << >>
    /\ Len(ret.value) = 27

\* every header of the class is passed a value as a keyword argument; the
\* values drawn are valid ones, each serializing to its header's length
AllPassed ==
    \A tag \in TagsOf(call.cls.mixins) : call.kwargs[tag] # Absent

\* assign_metadata was called with a value passed for every header, and
\* the bytes it returned were stripped or read, if it returned any
AssignedAllPassed ==
    /\ call.op \in {"assign_metadata", "strip_metadata", "get_metadata"}
    /\ AllPassed

\* C15: for every declared header chain, every buffer and every set of
\* valid header values, assign_metadata returns and strip_metadata of what
\* it returned is the buffer, exactly.
C15_StripRecoversBuffer ==
    AssignedAllPassed =>
        /\ pc # "raised"
        /\ pc = "stripped" => ret.value = call.splittable

\* the value get_metadata reads for a header assigned the value x: the str
\* decoded from the bytes for the headers that decode, else x itself
ReadBack(mixin, x) ==
    IF mixin.name \in DecodesAscii THEN StrVal(x.v) ELSE x

\* C16: get_metadata(assign_metadata(buffer, **values)) returns a map with
\* one entry per header tag, the deserialization of the value assigned to
\* it, for every header chain and every value representable in its header:
\* every version drawn from 0..65535 is read back as itself.
C16_MetadataReadBack ==
    AssignedAllPassed =>
        /\ pc # "raised"
        /\ pc = "read" =>
              \A i \in 1..Len(call.cls.mixins) :
                  LET mixin == call.cls.mixins[i]
                  IN  ret.value[mixin.METADATA_TAG]
                          = ReadBack(mixin, call.kwargs[mixin.METADATA_TAG])

\* the value the priority gives the i-th header: the keyword argument if
\* one is passed, else the attribute set on the composed class, else the
\* default of the mixin; Absent if there is none of them
Resolved(cls, kwargs, i) ==
    LET tag == cls.mixins[i].METADATA_TAG
    IN  IF kwargs[tag] # Absent THEN kwargs[tag]
        ELSE IF cls.attrs[tag] # Absent THEN cls.attrs[tag]
        ELSE cls.mixins[i].default

\* C17: assign_metadata gives each header the keyword argument passed for
\* its tag, else the attribute of that name on the composed class, else the
\* default of the mixin; a value passed is the one serialized; the call
\* raises ValueError exactly when some header has none of the three.
C17_ValuePriority ==
    (call.op = "assign_metadata" /\ pc \in {"assigned", "raised"}) =>
        LET cls == call.cls
            all == \A i \in 1..Len(cls.mixins) :
                      Resolved(cls, call.kwargs, i) # Absent
        IN  /\ ~all => ret.status = "raise" /\ ret.exc = "ValueError"
            /\ all =>
                  /\ ret.status = "ok"
                  /\ \A i \in 1..Len(cls.mixins) :
                        HeaderBytes(cls, i, ret.value)
                            = Wire(cls.mixins[i],
                                   Resolved(cls, call.kwargs, i))

(***************************************************************************)
(* Specification SpecComposed: an engine of a composed class is            *)
(* constructed and called on a buffer that starts with its headers         *)
(***************************************************************************)
\* longest payload behind the headers of a buffer a composed engine is
\* called on
MaxComposedBufLen == 4

\* the composed class of a name
ClassNamed(name) == CHOOSE cls \in ComposedClasses : cls.name = name

\* HeaderMetaDataMixinBase.__call__(self, splittable, **kwargs): the value
\* passed under the tag of the class, that of the first mixin of its MRO, is
\* popped and kept on the engine as input_<tag>; the headers are stripped;
\* BytestringSplitter.__call__ parses what is left
mixin__call__(self, splittable, tagged, return_remainder, msgpack_remainder, partial, single) ==
    [self |-> [self EXCEPT !.input = OrNone(tagged)],
     result |-> __call__(self,
                         strip_metadata(ClassNamed(self.cls), splittable),
                         return_remainder, msgpack_remainder,
                         partial, single)]

\* headers of a class as they come on the wire: those assign_metadata
\* makes from one truthy value per tag
SomeHeaders(cls) ==
    assign_metadata(cls, << >>,
        [tag \in TagsOf(cls.mixins) |->
            CHOOSE x \in ValuesDrawn(MixinOf(cls, tag)) : Truthy(x)]).value

\* the buffers an engine of a class is called on: headers and a payload,
\* and headers cut short
ComposedBuffers(cls) ==
    {SomeHeaders(cls) \o payload : payload \in BytesUpTo(MaxComposedBufLen)}
        \cup {PySlice(SomeHeaders(cls), 0, k) :
                 k \in 0..(Len(SomeHeaders(cls)) - 1)}

\* SomeComposedSplitter(*message_parameters); the engine has no attribute
\* input_<tag> yet
ConstructComposed ==
    /\ pc = "new"
    /\ \E cls \in ComposedClasses,
          message_parameters \in DeclSeqs(MaxFields) :
          LET made == __init__(cls.name, message_parameters)
          IN  IF made.status = "raise"
              THEN /\ pc' = "raised"
                   /\ ret' = made
                   /\ call' = [NoCall EXCEPT !.op = "__init__", !.cls = cls]
                   /\ UNCHANGED <<engines, rep>>
              ELSE /\ engines' = <<made.value @@ [input |-> Absent]>>
                   /\ pc' = "ready"
                   /\ call' = [NoCall EXCEPT !.cls = cls]
                   /\ UNCHANGED <<ret, rep>>

\* splitter(splittable, **flags), with or without a value under the tag
CallComposed ==
    /\ pc = "ready"
    /\ \E splittable \in ComposedBuffers(call.cls),
          tagged \in {Absent, IntVal(1)},
          return_remainder \in BOOLEAN, msgpack_remainder \in BOOLEAN,
          partial \in BOOLEAN, single \in BOOLEAN :
          LET done == mixin__call__(engines[1], splittable, tagged,
                                    return_remainder, msgpack_remainder,
                                    partial, single)
          IN  /\ engines' = <<done.self>>
              /\ ret' = done.result
              /\ call' = [call EXCEPT !.op = "__call__",
                             !.splittable = splittable,
                             !.return_remainder = return_remainder,
                             !.msgpack_remainder = msgpack_remainder,
                             !.partial = partial, !.single = single,
                             !.operands = <<tagged>>]
    /\ pc' = IF ret'.status = "raise" THEN "raised" ELSE "returned"
    /\ UNCHANGED rep

NextComposed == ConstructComposed \/ CallComposed

SpecComposed == Init /\ [][NextComposed]_vars

\* a composed engine has been called
ComposedCalled == call.op = "__call__" /\ pc \in {"returned", "raised"}

\* the plain engine with the fields of a composed one
PlainEngine(e) == __init__("BytestringSplitter", e.message_parameters).value

\* C18: calling an engine of a composed class on a buffer has the outcome,
\* the same results or the same error, of calling the plain engine of the
\* same fields with the same flags on the buffer without its first
\* sum-of-header-lengths bytes: the headers are stripped once, before any
\* field is parsed.
C18_ComposedCallIsPlainCallOnPayload ==
    ComposedCalled =>
        ret = __call__(PlainEngine(engines[1]),
                       PyTail(call.splittable, TotalHeaderLength(call.cls)),
                       call.return_remainder, call.msgpack_remainder,
                       call.partial, call.single)

\* an engine of two fields under four headers returned both fields and a
\* remainder
C18_Witness ==
    /\ ComposedCalled /\ ret.status = "ok"
    /\ Len(call.cls.mixins) = 4
    /\ Len(engines[1].message_types) = 2
    /\ call.return_remainder /\ ~call.msgpack_remainder /\ ~call.single
    /\ Len(ret.items) = 3
    /\ \A i \in 1..3 : ret.items[i].v # << >>

(***************************************************************************)
(* StructureChecksumMixin: zlib.crc32 over the field lengths               *)
(*                                                                         *)
(* A 32-bit register is a pair <<hi, lo>> of 16-bit halves.                *)
(***************************************************************************)
RECURSIVE XorInt(_, _)
\* a ^ b of non-negative ints
XorInt(a, b) ==
    IF a = 0 THEN b
    ELSE IF b = 0 THEN a
    ELSE 2 * XorInt(a \div 2, b \div 2) + ((a + b) % 2)

\* one shift of the register, the reflected CRC-32 polynomial 0xEDB88320
\* folded in when a one is shifted out
CrcShift(crc) ==
    LET hi == crc[1] \div 2
        lo == (crc[2] \div 2) + 32768 * (crc[1] % 2)
    IN  IF crc[2] % 2 = 1
        THEN <<XorInt(hi, 60856), XorInt(lo, 33568)>>
        ELSE <<hi, lo>>

RECURSIVE CrcShifts(_, _)
\* n shifts
CrcShifts(crc, n) == IF n = 0 THEN crc ELSE CrcShifts(CrcShift(crc), n - 1)

\* zlib's crc_table: the register eight shifts after it held the byte b
crc_table == [b \in 0..255 |-> CrcShifts(<<0, b>>, 8)]

\* the register after one more byte of input:
\* crc_table[(crc ^ b) & 0xff] ^ (crc >> 8)
CrcByte(crc, b) ==
    LET entry == crc_table[XorInt(crc[2] % 256, b)]
    IN  <<XorInt(entry[1], crc[1] \div 256),
          XorInt(entry[2], (crc[2] \div 256) + 256 * (crc[1] % 256))>>

RECURSIVE CrcBytes(_, _, _)
\* the register after the bytes data[i..]; the test of the register has it
\* computed before the next byte is taken
CrcBytes(crc, data, i) ==
    IF i > Len(data) THEN crc
    ELSE LET next == CrcByte(crc, data[i])
         IN  IF next[1] < 0 THEN next ELSE CrcBytes(next, data, i + 1)

\* zlib.crc32(data), as a register: all ones to start, inverted at the end
crc32(data) ==
    LET crc == CrcBytes(<<65535, 65535>>, data, 1)
    IN  <<65535 - crc[1], 65535 - crc[2]>>

\* the four big-endian bytes of a register
RegisterBytes(crc) ==
    <<crc[1] \div 256, crc[1] % 256, crc[2] \div 256, crc[2] % 256>>

\* n.to_bytes(length, "big") of the number in a register: its low bytes
\* if the others are zero, zeros before them if length is above four
register_to_bytes(crc, length) ==
    LET four == RegisterBytes(crc)
    IN  IF \E k \in 1..4 : k <= 4 - length /\ four[k] # 0
        THEN Raise("OverflowError")
        ELSE Return([k \in 1..length |->
                        IF k + 4 - length >= 1 THEN four[k + 4 - length]
                        ELSE 0])

\* the hash input of one field: four 0xFF bytes for a variable length,
\* else the length as four big-endian bytes
LengthBytes(message_type) ==
    IF message_type.message_length = VariableLengthBytestring
    THEN <<255, 255, 255, 255>>
    ELSE IF IsWide(message_type.message_length)
    THEN to_bytes_big(message_type.message_length.hi, 2)
             \o to_bytes_big(message_type.message_length.n, 2)
    ELSE to_bytes_big(message_type.message_length.n, VARIABLE_HEADER_LENGTH)

\* the hash input of one field with a byte for its class before the length
ClassAndLengthBytes(message_type) ==
    <<Len(message_type.message_class)>> \o LengthBytes(message_type)

\* generate_checksum hashing the classes of the fields with their lengths
checksum_of_classes_and_lengths(self) ==
    register_to_bytes(
        crc32(Concat([i \in 1..Len(self.message_types) |->
                         ClassAndLengthBytes(self.message_types[i])])),
        ClassNamed(self.cls).mixins[1].HEADER_LENGTH)

\* hash_input of generate_checksum: the fields one after the other
hash_input(self) ==
    Concat([i \in 1..Len(self.message_types) |->
               LengthBytes(self.message_types[i])])

\* StructureChecksumMixin.generate_checksum; self.HEADER_LENGTH is that of
\* the first mixin in the MRO of the engine's class
generate_checksum(self) ==
    register_to_bytes(
        crc32(hash_input(self)),
        ClassNamed(self.cls).mixins[1].HEADER_LENGTH)

\* hasattr(subclass, f'generate_{subclass.METADATA_TAG}'): only
\* StructureChecksumMixin defines one, generate_checksum
has_generate(subclass) == subclass.name = "StructureChecksumMixin"

RECURSIVE RenderFrom(_, _, _, _)
\* the loop of render from the i-th of the mixins on: a tag with no truthy
\* value passed gets the value its mixin generates for the engine
RenderFrom(self, mixins, i, kwargs) ==
    IF i > Len(mixins) THEN Return(kwargs)
    ELSE LET subclass == mixins[i]
             tag == subclass.METADATA_TAG
         IN  IF ~Truthy(OrNone(kwargs[tag])) /\ has_generate(subclass)
             THEN LET generated == generate_checksum(self)
                  IN  IF generated.status = "raise" THEN generated
                      ELSE RenderFrom(self, mixins, i + 1,
                               [kwargs EXCEPT
                                   ![tag] = BytesVal(generated.value)])
             ELSE RenderFrom(self, mixins, i + 1, kwargs)

\* HeaderMetaDataMixinBase.render(some_bytes, **kwargs)
render(self, some_bytes, kwargs) ==
    LET cls == ClassNamed(self.cls)
        filled == RenderFrom(self, _get_ordered_mixins(cls, FALSE), 1, kwargs)
    IN  IF filled.status = "raise" THEN filled
        ELSE assign_metadata(cls, some_bytes, filled.value)

\* HeaderMetaDataMixinBase.get_header_bytes: _get_metadata and METADATA_TAG
\* are those of the first mixin in the MRO of the engine's class
get_header_bytes(self, some_bytes) ==
    _get_metadata(ClassNamed(self.cls).mixins[1], some_bytes)

\* validate_checksum without "if result is False and raise_exception"
validate_checksum_never_raising(self, some_bytes, raise_exception) ==
    LET generated == generate_checksum(self)
        header == get_header_bytes(self, some_bytes)
    IN  IF generated.status = "raise" THEN generated
        ELSE IF header.status = "raise" THEN header
        ELSE [status |-> "ok", exc |-> "",
              equal |-> BytesVal(generated.value) = header.value]

\* StructureChecksumMixin.validate_checksum
validate_checksum(self, some_bytes, raise_exception) ==
    LET generated == generate_checksum(self)
        header == get_header_bytes(self, some_bytes)
    IN  IF generated.status = "raise" THEN generated
        ELSE IF header.status = "raise" THEN header
        ELSE LET result == BytesVal(generated.value) = header.value
             IN  IF ~result /\ raise_exception
                 THEN Raise("InvalidBytestringException")
                 ELSE [status |-> "ok", exc |-> "", equal |-> result]

(***************************************************************************)
(* Specification SpecChecksum: two engines of ChecksumVerifyingSplitter    *)
(* are constructed one after the other; one of them renders a payload and  *)
(* the first validates what was rendered, as it is, cut short, or with a   *)
(* header byte changed                                                     *)
(***************************************************************************)
\* most fields of an engine that carries a checksum
MaxChecksumFields == 2

\* the argument lists of at most MaxChecksumFields of the declarations
ChecksumDeclSeqs(decls) == UNION {[1..k -> decls] : k \in 0..MaxChecksumFields}

\* ChecksumVerifyingSplitter(*message_parameters), twice: engines[1] and
\* engines[2]
ConstructChecksumVerifying(decls) ==
    /\ pc = "new"
    /\ Len(engines) < 2
    /\ \E message_parameters \in ChecksumDeclSeqs(decls) :
          LET made == __init__(ChecksumVerifyingSplitter.name,
                               message_parameters)
          IN  IF made.status = "raise"
              THEN /\ pc' = "raised"
                   /\ ret' = made
                   /\ call' = [NoCall EXCEPT
                                  !.op = "__init__",
                                  !.cls = ChecksumVerifyingSplitter]
                   /\ UNCHANGED <<engines, rep>>
              ELSE /\ engines' = Append(engines,
                                        made.value @@ [input |-> Absent])
                   /\ pc' = IF Len(engines) = 1 THEN "ready" ELSE "new"
                   /\ call' = [NoCall EXCEPT
                                  !.cls = ChecksumVerifyingSplitter]
                   /\ UNCHANGED <<ret, rep>>

\* fields of one byte, of two bytes and of a variable length
ConstructChecksummed ==
    ConstructChecksumVerifying(
        {IntDecl(1), IntDecl(2), ClassDecl("VariableLengthBytestring")})

\* the payloads rendered
RenderedPayloads == {<< >>, <<0, 1>>}

\* render(some_bytes) passes no keyword argument
NoKwargs(cls) == [tag \in TagsOf(cls.mixins) |-> Absent]

\* splitter.render(some_bytes), by either engine
Render ==
    /\ pc = "ready"
    /\ \E f \in 1..2, some_bytes \in RenderedPayloads :
          /\ ret' = render(engines[f], some_bytes, NoKwargs(call.cls))
          /\ call' = [call EXCEPT !.op = "render", !.self = f,
                                  !.payloads = <<some_bytes>>]
    /\ pc' = IF ret'.status = "raise" THEN "raised" ELSE "rendered"
    /\ UNCHANGED <<engines, rep>>

\* what reaches the validating engine of a rendered buffer: the buffer, the
\* buffer cut inside its header, and the buffer with its first byte changed
Received(rendered) ==
    {rendered,
     PySlice(rendered, 0, StructureChecksumMixin.HEADER_LENGTH - 1),
     [rendered EXCEPT ![1] = (@ + 1) % 256]}

\* engines[1].validate_checksum(some_bytes, raise_exception)
Validate ==
    /\ pc = "rendered"
    /\ \E some_bytes \in Received(ret.value), raise_exception \in BOOLEAN :
          /\ ret' = validate_checksum(engines[1], some_bytes, raise_exception)
          /\ call' = [call EXCEPT !.op = "validate_checksum",
                                  !.splittable = some_bytes,
                                  !.raise_exception = raise_exception]
    /\ pc' = IF ret'.status = "raise" THEN "raised" ELSE "returned"
    /\ UNCHANGED <<engines, rep>>

NextChecksum == ConstructChecksummed \/ Render \/ Validate

SpecChecksum == Init /\ [][NextChecksum]_vars

\* engines[call.self] has rendered call.payloads[1]
Rendered == call.op = "render" /\ pc = "rendered"

\* engines[1] has validated call.splittable
Validated == call.op = "validate_checksum" /\ pc \in {"returned", "raised"}

\* the fingerprint of an engine
Fingerprint(e) == generate_checksum(e).value

\* C19: for checksum-composed engines E and F and any payload p, render
\* prepends the rendering engine's own fingerprint to p;
\* E.validate_checksum(E.render(p)) is true; when F's fingerprint differs
\* from E's, E.validate_checksum(F.render(p)) returns False, or raises
\* InvalidBytestringException when raise_exception is set; and
\* validate_checksum never returns true for a buffer whose 4 header bytes
\* differ from E's fingerprint.
C19_ValidateAcceptsOwnFingerprintOnly ==
    /\ Rendered =>
          ret = Return(Fingerprint(engines[call.self]) \o call.payloads[1])
    /\ Validated =>
          LET E == engines[1]
              F == engines[call.self]
              by_F == Fingerprint(F) \o call.payloads[1]
              True == [status |-> "ok", exc |-> "", equal |-> TRUE]
              False == [status |-> "ok", exc |-> "", equal |-> FALSE]
          IN  /\ (call.self = 1 /\ call.splittable = by_F) => ret = True
              /\ (call.splittable = by_F /\ Fingerprint(F) # Fingerprint(E))
                    => ret = IF call.raise_exception
                             THEN Raise("InvalidBytestringException")
                             ELSE False
              /\ PySlice(call.splittable, 0, 4) # Fingerprint(E)
                    => ret # True

\* the first engine, of two fields, was asked to raise and refused what the
\* second, of another fingerprint, rendered of a payload of two bytes
C19_Witness ==
    /\ Validated /\ call.self = 2 /\ call.raise_exception
    /\ Len(engines[1].message_types) = 2
    /\ Fingerprint(engines[2]) # Fingerprint(engines[1])
    /\ call.splittable = Fingerprint(engines[2]) \o <<0, 1>>
    /\ ret = Raise("InvalidBytestringException")

(***************************************************************************)
(* Specification SpecFingerprint: two engines of ChecksumVerifyingSplitter *)
(* are constructed one after the other, of fields declared by a bare int,  *)
(* by a class, and by tuples of another class with and without keyword     *)
(* arguments; generate_checksum is called on either, time and again        *)
(***************************************************************************)
\* most calls of generate_checksum in a run
MaxGenerated == 2

\* a byte as bytes, and as str with an encoding; a variable length by the
\* class, and as bytes
ConstructFingerprinted ==
    ConstructChecksumVerifying(
        {IntDecl(1),
         TupleDeclWith("str", IntLen(1), {"encoding"}),
         ClassDecl("VariableLengthBytestring"),
         TupleDecl("bytes", VariableLengthBytestring)})

\* splitter.generate_checksum(), on either engine; the results of the calls
\* of the run are kept in call.operands
GenerateChecksum ==
    /\ pc \in {"ready", "generated"}
    /\ Len(call.operands) < MaxGenerated
    /\ \E e \in 1..2 :
          /\ ret' = generate_checksum(engines[e])
          /\ call' = [call EXCEPT
                         !.op = "generate_checksum", !.self = e,
                         !.operands = Append(@, [self |-> e, result |-> ret'])]
    /\ pc' = "generated"
    /\ UNCHANGED <<engines, rep>>

NextFingerprint == ConstructFingerprinted \/ GenerateChecksum

SpecFingerprint == Init /\ [][NextFingerprint]_vars

\* the sequence of the field lengths of an engine
FieldLengths(e) ==
    [i \in 1..Len(e.message_types) |-> e.message_types[i].message_length]

\* the classes and keyword arguments of the fields of an engine
FieldConstructors(e) ==
    [i \in 1..Len(e.message_types) |->
        <<e.message_types[i].message_class, e.message_types[i].kwargs>>]

\* C20: the checksum fingerprint of an engine is a function of its sequence
\* of field lengths (concrete length or variable marker) only: any two calls
\* of generate_checksum, on one engine or on two independently constructed
\* engines of identical field-length sequences, return the same four bytes,
\* whatever the classes and keyword arguments of the fields.
C20_FingerprintOfLengthsOnly ==
    call.op = "generate_checksum" =>
        \A i, j \in DOMAIN call.operands :
            LET a == call.operands[i]
                b == call.operands[j]
            IN  FieldLengths(engines[a.self]) = FieldLengths(engines[b.self])
                    => /\ a.result = b.result
                       /\ a.result.status = "ok"
                       /\ Len(a.result.value) = 4

\* both engines, of the same two lengths and of fields all of different
\* classes or keyword arguments, were asked and gave the same fingerprint
C20_Witness ==
    /\ call.op = "generate_checksum" /\ Len(call.operands) = 2
    /\ call.operands[1].self # call.operands[2].self
    /\ Len(engines[1].message_types) = 2
    /\ FieldLengths(engines[1]) = FieldLengths(engines[2])
    /\ \A i \in 1..2 :
          FieldConstructors(engines[1])[i] # FieldConstructors(engines[2])[i]
    /\ call.operands[1].result = call.operands[2].result

(***************************************************************************)
(* Specification SpecEncoding: two engines of ChecksumVerifyingSplitter    *)
(* are constructed one after the other, of fields of the lengths 0, 1,     *)
(* 256, 2^32 - 1 and of a variable length, and asked for their checksums   *)
(***************************************************************************)
\* the least and the greatest length of four bytes, two lengths between
\* them, and the variable marker
ConstructEncoded ==
    ConstructChecksumVerifying(
        {IntDecl(0), IntDecl(1), IntDecl(256),
         TupleDecl("bytes", WideLen(65535, 65535)),
         ClassDecl("VariableLengthBytestring")})

NextEncoding == ConstructEncoded \/ GenerateChecksum

SpecEncoding == Init /\ [][NextEncoding]_vars

\* C21: two engines whose field-length sequences differ (each entry a
\* concrete length in 0..2^32-1 or the variable marker, the marker counting
\* as different from every concrete length) feed different byte strings to
\* the hash function: the 4-byte-per-field encoding of the sequence is
\* injective.
C21_EncodingInjective ==
    (call.op = "generate_checksum" /\ Len(engines) = 2) =>
        (FieldLengths(engines[1]) # FieldLengths(engines[2])
            => hash_input(engines[1]) # hash_input(engines[2]))

(***************************************************************************)
(* Specification SpecNested: an engine of ChecksumVerifyingSplitter with   *)
(* fixed fields is constructed, and a second one of the fields (the first  *)
(* engine, one raw byte, the first engine); the first renders two          *)
(* payloads, the second renders them with a byte between them, and is      *)
(* called on what it rendered                                              *)
(***************************************************************************)
\* most fields of the nested engine, and the longest of them
MaxNestedFields == 2
MaxNestedFieldLen == 2

\* the argument lists of the nested engine: fixed fields only
NestedDeclSeqs ==
    UNION {[1..k -> {IntDecl(n) : n \in 1..MaxNestedFieldLen}] :
              k \in 1..MaxNestedFields}

\* inner = ChecksumVerifyingSplitter(*message_parameters)
ConstructInner ==
    /\ pc = "new"
    /\ engines = << >>
    /\ \E message_parameters \in NestedDeclSeqs :
          engines' = <<__init__(ChecksumVerifyingSplitter.name,
                                message_parameters).value
                           @@ [input |-> Absent]>>
    /\ call' = [NoCall EXCEPT !.cls = ChecksumVerifyingSplitter]
    /\ UNCHANGED <<pc, ret, rep>>

\* outer = ChecksumVerifyingSplitter(inner, (bytes, 1), inner)
ConstructOuter ==
    /\ pc = "new"
    /\ Len(engines) = 1
    /\ LET made == __init__(ChecksumVerifyingSplitter.name,
                            <<SplitterDecl(engines[1]),
                              TupleDecl("bytes", IntLen(1)),
                              SplitterDecl(engines[1])>>)
       IN  IF made.status = "raise"
           THEN /\ pc' = "raised"
                /\ ret' = made
                /\ call' = [call EXCEPT !.op = "__init__"]
                /\ UNCHANGED <<engines, rep>>
           ELSE /\ engines' = Append(engines,
                                     made.value @@ [input |-> Absent])
                /\ pc' = "ready"
                /\ UNCHANGED <<call, ret, rep>>

\* inner.render(p), for the first and for the second payload: the payloads
\* are kept in call.payloads, what was rendered of them in call.operands
RenderInner ==
    /\ pc = "ready"
    /\ Len(call.payloads) < 2
    /\ \E p \in BytesOfLen(__len__(engines[1])) :
          LET rendered == render(engines[1], p, NoKwargs(call.cls))
          IN  /\ rendered.status = "ok"
              /\ call' = [call EXCEPT !.op = "render", !.self = 1,
                                      !.payloads = Append(@, p),
                                      !.operands = Append(@, rendered.value)]
    /\ UNCHANGED <<engines, pc, ret, rep>>

\* outer.render(rendered_1 + x + rendered_2)
RenderOuter ==
    /\ pc = "ready"
    /\ Len(call.payloads) = 2
    /\ \E x \in BytesOfLen(1) :
          /\ ret' = render(engines[2],
                           call.operands[1] \o x \o call.operands[2],
                           NoKwargs(call.cls))
          /\ call' = [call EXCEPT !.op = "render", !.self = 2,
                                  !.payloads = Append(@, x)]
    /\ pc' = IF ret'.status = "raise" THEN "raised" ELSE "rendered"
    /\ UNCHANGED <<engines, rep>>

\* whether a call of the outer engine gets as far as calling the nested
\* one, its first field: the length checks pass and the field does not
\* claim more bytes than the buffer has
ReachesNested(self, splittable, return_remainder) ==
    /\ ~wrong_number_of_bytes(self, splittable, return_remainder, FALSE)
    /\ ~claims_too_many_bytes(self.message_types[1].message_length.n,
                              splittable, 0)

\* outer(nested_bytes, return_remainder=..., single=...); the nested
\* engine, held by reference, keeps the input_<tag> its own call sets
CallNested ==
    /\ pc = "rendered"
    /\ \E return_remainder \in BOOLEAN, single \in BOOLEAN :
          LET done == mixin__call__(engines[2], ret.value, Absent,
                                    return_remainder, FALSE, FALSE, single)
              stripped == strip_metadata(call.cls, ret.value)
          IN  /\ engines' =
                    <<IF ReachesNested(engines[2], stripped, return_remainder)
                      THEN [engines[1] EXCEPT !.input = NoneVal]
                      ELSE engines[1],
                      done.self>>
              /\ ret' = done.result
              /\ call' = [call EXCEPT !.op = "__call__", !.self = 2,
                                      !.splittable = ret.value,
                                      !.return_remainder = return_remainder,
                                      !.single = single]
    /\ pc' = IF ret'.status = "raise" THEN "raised" ELSE "returned"
    /\ UNCHANGED rep

NextNested ==
    ConstructInner \/ ConstructOuter \/ RenderInner \/ RenderOuter
        \/ CallNested

SpecNested == Init /\ [][NextNested]_vars

\* the fields of a payload of the nested engine, as the list a call of that
\* engine on the payload returns
FieldsOf(e, p) ==
    [t |-> "list", cls |-> "",
     v |-> [i \in 1..Len(e.message_types) |->
               SlicesOf(p, FixedLens(e))[i]]]

\* C22: an outer checksum-composed engine declared with the fields (inner,
\* 1 raw byte, inner), inner a checksum-composed engine of fixed fields,
\* parses outer.render(inner.render(p1) + x + inner.render(p2)) into the
\* fields of p1 as a nested list, x, and the fields of p2 as a nested list.
C22_NestedParse ==
    (call.op = "__call__" /\ call.self = 2
        /\ ~call.return_remainder /\ ~call.single) =>
        /\ ret.status = "ok"
        /\ ret.items = <<FieldsOf(engines[1], call.payloads[1]),
                         BytesVal(call.payloads[3]),
                         FieldsOf(engines[1], call.payloads[2])>>

(***************************************************************************)
(* Specification SpecDeclare: an engine is constructed from declarations   *)
(* some of which name a class that has no expected_bytes_length            *)
(***************************************************************************)
\* ints, a class with expected_bytes_length and two classes without one,
\* and tuples of these two with a variable length, with the length 1 and
\* with the length 0
Declared ==
    {IntDecl(k) : k \in 0..MaxFieldLen}
        \cup {ClassDecl(c) : c \in {"VariableLengthBytestring", "bytes", "str"}}
        \cup {TupleDecl(c, l) :
                 c \in {"bytes", "str"},
                 l \in {VariableLengthBytestring, IntLen(1), IntLen(0)}}

DeclaredSeqs == UNION {[1..k -> Declared] : k \in 0..MaxFields}

\* BytestringSplitter(*message_parameters); the arguments are kept in
\* call.operands
ConstructDeclared ==
    /\ pc = "new"
    /\ \E message_parameters \in DeclaredSeqs :
          LET made == __init__("BytestringSplitter", message_parameters)
          IN  /\ call' = [NoCall EXCEPT !.op = "__init__",
                                        !.operands = message_parameters]
              /\ IF made.status = "raise"
                 THEN /\ pc' = "raised"
                      /\ ret' = made
                      /\ UNCHANGED <<engines, rep>>
                 ELSE /\ engines' = Append(engines, made.value)
                      /\ pc' = "ready"
                      /\ UNCHANGED <<ret, rep>>

SpecDeclare == Init /\ [][ConstructDeclared]_vars

\* a declaration whose length cannot be resolved: a bare class, or a tuple
\* with the length 0, of a class without expected_bytes_length
Unresolvable(message_type) ==
    /\ \/ message_type.form = "class"
       \/ message_type.form = "tuple" /\ message_type.len = IntLen(0)
    /\ ~HasExpectedBytesLength(message_type.cls)

\* C26: constructing an engine from a declaration whose length cannot be
\* resolved (a bare constructor, not an integer and not a tuple with a
\* usable length, that exposes no expected_bytes_length) fails with
\* TypeError, and with no other kind of error.
C26_UnresolvableLengthIsTypeError ==
    (call.op = "__init__"
        /\ \E i \in 1..Len(call.operands) : Unresolvable(call.operands[i]))
        => /\ pc = "raised"
           /\ ret = Raise("TypeError")

\* C29: when a parse succeeds with neither return_remainder nor
\* msgpack_remainder requested, the whole buffer was consumed: the final
\* cursor equals len(buffer), for layouts with variable-length fields as
\* well as fixed-only layouts.
C29_WholeBufferConsumed ==
    (Called /\ ret.status = "ok"
        /\ ~call.return_remainder /\ ~call.msgpack_remainder)
        => ret.cursor = Len(call.splittable)

\* C28: a parse call on an engine, plain or header-composed, writes no
\* state that outlives the call on the engine object: after the call every
\* attribute of the engine is the same as before it, whether the call
\* succeeded or failed.
C28_CallLeavesEngineUnchanged ==
    [][(pc = "ready" /\ call'.op = "__call__") => engines' = engines]_vars

(***************************************************************************)
(* BytestringKwargifier and the PartiallyKwargifiedBytes it hands out.     *)
(* Keyword arguments and dicts are sequences of items [name, value] in the *)
(* order of insertion; a receiver is the name of a class, "" for None, and *)
(* the object it makes holds the keyword arguments it was called with.     *)
(***************************************************************************)
\* BytestringKwargifier.__init__(_receiver, _additional_kwargs=...,
\* **parameter_pairs); no _partial_receiver is passed
Kwargifier__init__(_receiver, _additional_kwargs, parameter_pairs) ==
    LET made == __init__("BytestringKwargifier", parameter_pairs)
    IN  IF made.status = "raise" THEN made
        ELSE Return(made.value @@ [receiver |-> _receiver,
                                   _additional_kwargs |-> _additional_kwargs])

\* the names of the items of a dict
Keys(d) == {d[k].name : k \in 1..Len(d)}

\* d[name]
GetItem(d, name) == d[CHOOSE k \in 1..Len(d) : d[k].name = name].value

\* del d[name]
DelItem(d, name) == SelectSeq(d, LAMBDA item : item.name # name)

\* receiver(**values, **additional_kwargs): a name given twice is a
\* TypeError, else the object made of the keyword arguments
receive(receiver, values, additional_kwargs) ==
    IF Keys(values) \cap Keys(additional_kwargs) # {}
    THEN Raise("TypeError")
    ELSE Return([t |-> "object", v |-> << >>, cls |-> receiver,
                 kwargs |-> values \o additional_kwargs])

\* what the partial_receiver makes of processed_objects, after
\* set_receiver, set_additional_kwargs and set_original_bytes_repr
PartiallyKwargifiedBytes(processed_objects, receiver, additional_kwargs, bytes_representation) ==
    [t |-> "PartiallyKwargifiedBytes", v |-> << >>, cls |-> "",
     processed_objects |-> processed_objects,
     _finished_values |-> << >>,
     _receiver |-> receiver,
     _additional_kwargs |-> additional_kwargs,
     _original_bytes |-> bytes_representation]

\* a return that never unwraps the container
KwargifiedAsList(container, calls) ==
    [status |-> "ok", exc |-> "", shape |-> "list",
     items |-> container, calls |-> calls]

\* what a call of the kwargifier returns: container[0] or container, with
\* the keyword arguments of the calls of the receiver it made, in order
Kwargified(container, calls) ==
    [status |-> "ok", exc |-> "",
     shape |-> IF Len(container) = 1 THEN "bare" ELSE "list",
     items |-> container, calls |-> calls]

RECURSIVE KwargifyFrom(_, _, _, _, _, _, _)
\* an iteration of the loop "while True" from the unpacking of what
\* BytestringSplitter.__call__ returned on
kwargify_parsed(self, receiver, splittable, partial, return_remainder, container, calls, parsed) ==
    IF parsed.status = "raise" THEN parsed
    ELSE IF return_remainder /\ parsed.shape \notin {"list", "tuple"}
    THEN Raise("TypeError")
    ELSE LET remainder ==
                 IF return_remainder /\ parsed.shape = "list"
                 THEN parsed.second.v
                 ELSE << >>
             appended ==
                 IF partial
                 THEN Return(PartiallyKwargifiedBytes(
                                 parsed.items, receiver,
                                 self._additional_kwargs, splittable))
                 ELSE receive(receiver, parsed.items,
                              self._additional_kwargs)
         IN  IF appended.status = "raise" THEN appended
             ELSE LET container_ == Append(container, appended.value)
                      calls_ == IF partial THEN calls
                                ELSE Append(calls, appended.value.kwargs)
                  IN  IF remainder = << >>
                      THEN Kwargified(container_, calls_)
                      ELSE KwargifyFrom(self, receiver, remainder,
                                        partial, return_remainder,
                                        container_, calls_)

\* the loop "while True" of BytestringKwargifier.__call__
KwargifyFrom(self, receiver, splittable, partial, return_remainder, container, calls) ==
    kwargify_parsed(self, receiver, splittable, partial, return_remainder,
                    container, calls,
                    __call__(self, splittable, return_remainder, FALSE,
                             partial, FALSE))

\* BytestringKwargifier.__call__(splittable, receiver, partial,
\* return_remainder)
Kwargifier__call__(self, splittable, receiver, partial, return_remainder) ==
    LET receiver_ == IF receiver # "" THEN receiver ELSE self.receiver
    IN  IF receiver_ = "" THEN Raise("TypeError")
        ELSE KwargifyFrom(self, receiver_, splittable, partial,
                          return_remainder, << >>, << >>)

\* BytestringKwargifier.repeat
Kwargifier_repeat(self, splittable, as_set) ==
    IF as_set THEN Raise("BytestringSplittingError")
    ELSE Kwargifier__call__(self, splittable, "", FALSE, TRUE)

(***************************************************************************)
(* Specification SpecKwargify: a BytestringKwargifier is built from named  *)
(* fields and repeats over a buffer of concatenated records                *)
(***************************************************************************)
MaxKwFields == 2
MaxRecords == 2

\* the keywords the fields are declared under, in the order they are given
FieldNames == <<"a", "b", "c", "d">>

\* the declarations of the named fields: one byte, or a variable length
KwDecls == {IntDecl(1), ClassDecl("VariableLengthBytestring")}

\* **parameter_pairs: up to MaxKwFields named declarations
KwParameterPairs ==
    UNION {{[i \in 1..n |-> Item(FieldNames[i], decls[i])] :
               decls \in [1..n -> KwDecls]} : n \in 1..MaxKwFields}

\* _additional_kwargs: none, or one keyword no field is named after
KwAdditional == {<< >>, <<[name |-> "extra", value |-> IntVal(1)]>>}

\* BytestringKwargifier(DeliciousCoffee, _additional_kwargs=..., a=..., ...)
ConstructKwargifier ==
    /\ pc = "new"
    /\ \E parameter_pairs \in KwParameterPairs,
          _additional_kwargs \in KwAdditional :
          LET made == Kwargifier__init__("DeliciousCoffee",
                                         _additional_kwargs, parameter_pairs)
          IN  IF made.status = "raise"
              THEN /\ pc' = "raised"
                   /\ ret' = made
                   /\ call' = [NoCall EXCEPT !.op = "__init__"]
                   /\ UNCHANGED <<engines, rep>>
              ELSE /\ engines' = Append(engines, made.value)
                   /\ pc' = "ready"
                   /\ UNCHANGED <<call, ret, rep>>

\* the payloads a field of a record carries
RecordPayloadsOfField(message_length) ==
    IF message_length = VariableLengthBytestring
    THEN {<< >>, <<1>>}
    ELSE {[i \in 1..message_length.n |-> b] : b \in ByteVals}

RECURSIVE RecordsFrom(_, _)
\* one payload per field among message_types[i..]
RecordsFrom(e, i) ==
    IF i > Len(e.message_types) THEN {<< >>}
    ELSE {<<p>> \o rest :
             p \in RecordPayloadsOfField(e.message_types[i].message_length),
             rest \in RecordsFrom(e, i + 1)}

\* the sequences of 1..MaxRecords records of the engine
RecordSeqs(e) ==
    UNION {[1..k -> RecordsFrom(e, 1)] : k \in 1..MaxRecords}

\* kwargifier.repeat(record + record + ...)
RepeatRecords ==
    /\ pc = "ready"
    /\ \E records \in RecordSeqs(engines[1]) :
          LET splittable ==
                  Concat([k \in 1..Len(records) |->
                             Pack(engines[1], records[k])])
          IN  /\ call' = [NoCall EXCEPT !.op = "repeat", !.self = 1,
                             !.splittable = splittable,
                             !.payloads = records]
              /\ ret' = Kwargifier_repeat(engines[1], splittable, FALSE)
    /\ pc' = "returned"
    /\ UNCHANGED <<engines, rep>>

NextKwargify == ConstructKwargifier \/ RepeatRecords

SpecKwargify == Init /\ [][NextKwargify]_vars

\* the keyword arguments a record is received with: its fields by name,
\* then the additional ones
KwargsOfRecord(e, record) ==
    [i \in 1..Len(record) |->
        [name |-> e.message_types[i].message_name,
         value |-> BytesVal(record[i])]] \o e._additional_kwargs

\* C23: repeat over k >= 1 concatenated records calls the receiver once per
\* record, in input order, with the record's named field values and the
\* additional keyword values; it returns the object alone when k = 1 and
\* the list of the k objects, in order, when k > 1
C23_RepeatReceivesEachRecord ==
    (pc = "returned" /\ call.op = "repeat") =>
        LET e == engines[1]
            k == Len(call.payloads)
        IN  /\ ret.status = "ok"
            /\ Len(ret.calls) = k
            /\ \A i \in 1..k :
                  ret.calls[i] = KwargsOfRecord(e, call.payloads[i])
            /\ ret.shape = (IF k = 1 THEN "bare" ELSE "list")
            /\ Len(ret.items) = k
            /\ \A i \in 1..k :
                  /\ ret.items[i].t = "object"
                  /\ ret.items[i].cls = "DeliciousCoffee"
                  /\ ret.items[i].kwargs
                        = KwargsOfRecord(e, call.payloads[i])

C23_Witness ==
    /\ pc = "returned"
    /\ call.op = "repeat"
    /\ Len(call.payloads) = MaxRecords
    /\ call.payloads[1] # call.payloads[2]
    /\ Len(engines[1].message_types) = 2
    /\ engines[1].is_variable_length
    /\ engines[1]._additional_kwargs # << >>
    /\ ret.status = "ok"
    /\ ret.shape = "list"

(***************************************************************************)
(* PartiallyKwargifiedBytes: attribute access and finish                   *)
(***************************************************************************)
\* the object a call of a constructor makes: the value produce_value
\* returns, as the object made by the n-th invocation on the handle. Two
\* invocations never make the same object
Constructed(value, n) == value @@ [made |-> n]

\* the value of an object, whichever invocation made it
ValueOf(object) == [t |-> object.t, v |-> object.v, cls |-> object.cls]

\* produce_value on a handle whose constructors were invoked for the names
\* in constructions before
produced_on_handle(deferred, message_name, constructions) ==
    LET produced == produce_value(deferred.cls, message_name, deferred.v,
                                  deferred.kwargs)
    IN  IF produced.status = "raise" THEN produced
        ELSE Return(Constructed(produced.value, Len(constructions) + 1))

\* what an operation of the handle leaves: the handle, what the caller
\* gets, and the names the constructors were invoked for so far
Handled(self, result, constructions) ==
    [self |-> self, result |-> result, constructions |-> constructions]

\* an access that leaves the raw bytes of the field in place
evict_nothing(self, message_name) == self

\* del self.processed_objects[message_name] of __getattr__
evict(self, message_name) ==
    [self EXCEPT !.processed_objects = DelItem(@, message_name)]

\* PartiallyKwargifiedBytes.__getattr__(message_name)
__getattr__(self, message_name, constructions) ==
    IF message_name \in Keys(self._finished_values)
    THEN Handled(self, Return(GetItem(self._finished_values, message_name)),
                 constructions)
    ELSE IF message_name \notin Keys(self.processed_objects)
    THEN Handled(self, Raise("AttributeError"), constructions)
    ELSE LET deferred == GetItem(self.processed_objects, message_name)
             first == produced_on_handle(deferred, message_name,
                                         constructions)
             once == Append(constructions, message_name)
         IN  IF first.status = "raise" THEN Handled(self, first, once)
             ELSE LET cached ==
                          [self EXCEPT !._finished_values =
                              SetItem(@, message_name, first.value)]
                      produced_value ==
                          produced_on_handle(deferred, message_name, once)
                      twice == Append(once, message_name)
                  IN  IF produced_value.status = "raise"
                      THEN Handled(cached, produced_value, twice)
                      ELSE Handled(evict(cached, message_name),
                                   produced_value, twice)

RECURSIVE FinishFrom(_, _, _, _)
\* the loop of finish over self.processed_objects.items(), from the i-th
\* item on, then the call of the receiver
FinishFrom(self, i, finished, constructions) ==
    IF i > Len(self.processed_objects)
    THEN Handled([self EXCEPT !._finished_values = finished],
                 receive(self._receiver, finished, self._additional_kwargs),
                 constructions)
    ELSE LET message_name == self.processed_objects[i].name
             produced == produced_on_handle(self.processed_objects[i].value,
                                            message_name, constructions)
             invoked == Append(constructions, message_name)
         IN  IF produced.status = "raise"
             THEN Handled([self EXCEPT !._finished_values = finished],
                          produced, invoked)
             ELSE FinishFrom(self, i + 1,
                             SetItem(finished, message_name, produced.value),
                             invoked)

\* a finish that forgets the values constructed by earlier accesses
finish_of_pending_only(self, constructions) ==
    FinishFrom(self, 1, << >>, constructions)

\* PartiallyKwargifiedBytes.finish()
finish(self, constructions) ==
    FinishFrom(self, 1, self._finished_values, constructions)

(***************************************************************************)
(* Specification SpecHandle: a record is parsed with partial=True, fields  *)
(* of the handle are accessed in any order, and the handle is finished     *)
(***************************************************************************)
MaxAccesses == 3

\* the attributes asked of the handle: the declared fields and, as in
\* brewing_coffee.sip(), one that is no field
AccessedNames(self) ==
    {self.message_types[i].message_name :
        i \in 1..Len(self.message_types)} \cup {"sip"}

\* kwargifier(record, partial=True)
ParsePartial ==
    /\ pc = "ready"
    /\ \E record \in RecordsFrom(engines[1], 1) :
          LET splittable == Pack(engines[1], record)
              parsed == Kwargifier__call__(engines[1], splittable, "",
                                           TRUE, FALSE)
          IN  /\ call' = [NoCall EXCEPT !.op = "__call__", !.self = 1,
                             !.splittable = splittable,
                             !.payloads = record, !.partial = TRUE]
              /\ ret' = parsed
              /\ IF parsed.status = "raise"
                 THEN pc' = "raised" /\ UNCHANGED rep
                 ELSE /\ pc' = "handle"
                      /\ rep' = [handle |-> parsed.items[1],
                                 constructions |-> << >>,
                                 accesses |-> << >>]
    /\ UNCHANGED engines

\* handle.<message_name>
Access ==
    /\ pc = "handle"
    /\ Len(rep.accesses) < MaxAccesses
    /\ \E message_name \in AccessedNames(engines[1]) :
          LET handled == __getattr__(rep.handle, message_name,
                                     rep.constructions)
          IN  /\ rep' = [handle |-> handled.self,
                         constructions |-> handled.constructions,
                         accesses |-> Append(rep.accesses, message_name)]
              /\ ret' = handled.result
              /\ call' = [call EXCEPT !.op = "__getattr__"]
    /\ pc' = "handle"
    /\ UNCHANGED engines

\* handle.finish()
Finish ==
    /\ pc = "handle"
    /\ LET handled == finish(rep.handle, rep.constructions)
       IN  /\ rep' = [rep EXCEPT !.handle = handled.self,
                                 !.constructions = handled.constructions]
           /\ ret' = handled.result
           /\ call' = [call EXCEPT !.op = "finish"]
    /\ pc' = "finished"
    /\ UNCHANGED engines

NextHandle == ConstructKwargifier \/ ParsePartial \/ Access \/ Finish

SpecHandle == Init /\ [][NextHandle]_vars

\* the names the fields of the engine are declared under
DeclaredNames(self) ==
    {self.message_types[i].message_name : i \in 1..Len(self.message_types)}

\* the bytes the record parsed into the handle carries for the field
PayloadOfName(self, record, message_name) ==
    record[CHOOSE i \in 1..Len(self.message_types) :
               self.message_types[i].message_name = message_name]

\* the attribute the latest access asked for
Accessed(r) == r.accesses[Len(r.accesses)]

\* C24: a freshly returned handle has no cached value and every declared
\* field pending; the first access to a declared field constructs its
\* value, stores it in the cache and removes the field from the pending
\* entries; a later access returns the cached value, invokes no constructor
\* and leaves the handle as it is; the fields not accessed stay pending
C24_AccessCachesAndEvicts ==
    [][/\ (pc = "ready" /\ pc' = "handle") =>
             /\ rep'.handle._finished_values = << >>
             /\ Keys(rep'.handle.processed_objects)
                   = DeclaredNames(engines[1])
       /\ (pc = "handle" /\ call'.op = "__getattr__") =>
             LET message_name == Accessed(rep')
                 before == rep.handle
                 after == rep'.handle
             IN  /\ (message_name \in Keys(before.processed_objects)) =>
                       /\ ret'.status = "ok"
                       /\ Len(rep'.constructions) > Len(rep.constructions)
                       /\ \A n \in Len(rep.constructions) + 1
                                      ..Len(rep'.constructions) :
                             rep'.constructions[n] = message_name
                       /\ message_name \in Keys(after._finished_values)
                       /\ ValueOf(GetItem(after._finished_values,
                                          message_name))
                             = BytesVal(PayloadOfName(engines[1],
                                                      call.payloads,
                                                      message_name))
                       /\ message_name \notin Keys(after.processed_objects)
                 /\ (message_name \in Keys(before._finished_values)) =>
                       /\ ret' = Return(GetItem(before._finished_values,
                                                message_name))
                       /\ rep'.constructions = rep.constructions
                       /\ after = before
                 /\ \A other \in Keys(before.processed_objects)
                                    \ {message_name} :
                       /\ other \in Keys(after.processed_objects)
                       /\ GetItem(after.processed_objects, other)
                             = GetItem(before.processed_objects, other)
                       /\ other \notin Keys(after._finished_values)
                 /\ \A other \in Keys(before._finished_values)
                                    \ {message_name} :
                       /\ other \in Keys(after._finished_values)
                       /\ GetItem(after._finished_values, other)
                             = GetItem(before._finished_values, other)
      ]_vars

C24_Witness ==
    /\ pc = "handle"
    /\ call.op = "__getattr__"
    /\ rep.accesses = <<"a", "a">>
    /\ ret.status = "ok"
    /\ ret.value = GetItem(rep.handle._finished_values, "a")
    /\ "a" \notin Keys(rep.handle.processed_objects)
    /\ "b" \in Keys(rep.handle.processed_objects)

\* the keyword arguments as a set of names with their values
Named(kwargs) ==
    {[name |-> kwargs[i].name, value |-> ValueOf(kwargs[i].value)] :
        i \in 1..Len(kwargs)}

\* C25: finish() on the handle of a one-record buffer, after any sequence
\* of accesses, calls the receiver with exactly the declared field names
\* and the additional keywords, each once, with the values a non-partial
\* parse of the same buffer passes to the receiver
C25_FinishReceivesWhatWholeParseReceives ==
    (pc = "finished") =>
        LET whole == Kwargifier__call__(engines[1], call.splittable, "",
                                        FALSE, FALSE)
        IN  /\ whole.status = "ok"
            /\ ret.status = "ok"
            /\ ret.value.cls = whole.items[1].cls
            /\ Len(ret.value.kwargs) = Len(whole.calls[1])
            /\ Named(ret.value.kwargs) = Named(whole.calls[1])
            /\ Keys(ret.value.kwargs)
                  = DeclaredNames(engines[1])
                       \cup Keys(engines[1]._additional_kwargs)

C25_Witness ==
    /\ pc = "finished"
    /\ rep.accesses = <<"b", "sip", "b">>
    /\ Len(engines[1].message_types) = 2
    /\ engines[1]._additional_kwargs # << >>
    /\ ret.status = "ok"
    /\ Len(ret.value.kwargs) = 3

\* C30: the first access to a pending field invokes the constructor of the
\* field exactly once, and the object returned is the one stored in the
\* cache
C30_FirstAccessConstructsOnce ==
    [][(/\ pc = "handle"
        /\ call'.op = "__getattr__"
        /\ Accessed(rep') \in Keys(rep.handle.processed_objects)) =>
           /\ Len(rep'.constructions) = Len(rep.constructions) + 1
           /\ ret'.status = "ok"
           /\ ret'.value = GetItem(rep'.handle._finished_values,
                                   Accessed(rep'))
      ]_vars

(***************************************************************************)
(* Specification SpecPartial: a plain splitter or a kwargifier parses a    *)
(* record with partial=True                                                *)
(***************************************************************************)
\* the declarations of the fields: one or two bytes, a variable length,
\* and a class with options, as in (int, 2, {"byteorder": "big"})
PartialDecls ==
    {IntDecl(1), IntDecl(2), ClassDecl("VariableLengthBytestring"),
     TupleDeclWith("str", IntLen(1), {"encoding"})}

PartialDeclSeqs == UNION {[1..n -> PartialDecls] : n \in 1..MaxKwFields}

\* BytestringSplitter(*decls) or BytestringKwargifier(receiver, a=..., ...)
ConstructPartial ==
    /\ pc = "new"
    /\ \E decls \in PartialDeclSeqs, named \in BOOLEAN :
          LET made ==
                  IF named
                  THEN Kwargifier__init__(
                           "DeliciousCoffee", << >>,
                           [i \in 1..Len(decls) |->
                               Item(FieldNames[i], decls[i])])
                  ELSE __init__("BytestringSplitter", decls)
          IN  IF made.status = "raise"
              THEN /\ pc' = "raised"
                   /\ ret' = made
                   /\ call' = [NoCall EXCEPT !.op = "__init__"]
                   /\ UNCHANGED <<engines, rep>>
              ELSE /\ engines' = Append(engines, made.value)
                   /\ pc' = "ready"
                   /\ UNCHANGED <<call, ret, rep>>

\* splitter(record, partial=True)
CallPartial ==
    /\ pc = "ready"
    /\ \E record \in RecordsFrom(engines[1], 1) :
          LET splittable == Pack(engines[1], record)
          IN  /\ call' = [NoCall EXCEPT !.op = "__call__", !.self = 1,
                             !.splittable = splittable,
                             !.payloads = record, !.partial = TRUE]
              /\ ret' = IF engines[1].cls = "BytestringKwargifier"
                        THEN Kwargifier__call__(engines[1], splittable, "",
                                                TRUE, FALSE)
                        ELSE __call__(engines[1], splittable, FALSE, FALSE,
                                      TRUE, FALSE)
    /\ pc' = "returned"
    /\ UNCHANGED <<engines, rep>>

NextPartial == ConstructPartial \/ CallPartial

SpecPartial == Init /\ [][NextPartial]_vars

\* the deferred entries of the handle returned, in the order of the fields
DeferredEntries(self, returned) ==
    IF self.cls = "BytestringKwargifier"
    THEN [i \in 1..Len(returned.items[1].processed_objects) |->
             returned.items[1].processed_objects[i].value]
    ELSE returned.items

\* C27: in partial mode every deferred entry, stored by name or appended
\* positionally, carries the raw bytes of the field, its constructor and
\* its options mapping
C27_DeferredEntryCarriesOptions ==
    (pc = "returned" /\ call.op = "__call__" /\ call.partial
        /\ ret.status = "ok") =>
        LET self == engines[1]
            entries == DeferredEntries(self, ret)
        IN  /\ Len(entries) = Len(self.message_types)
            /\ \A i \in 1..Len(entries) :
                  /\ entries[i].t = "deferred"
                  /\ entries[i].v = call.payloads[i]
                  /\ entries[i].cls = self.message_types[i].message_class
                  /\ "kwargs" \in DOMAIN entries[i]
                  /\ entries[i].kwargs = self.message_types[i].kwargs

====
